---------------------------- MODULE Spec2Model ----------------------------
(***************************************************************************)
(* A model of the fixture ingestion pipeline of the dashboard:             *)
(* start_collection, process_collection and collect_fixture_details of     *)
(* src/callbacks/data_collection_callback.py, with the remote API and the  *)
(* document store as the environment.                                      *)
(*                                                                         *)
(* A behaviour is one scenario: the remote's fixture list, the store's     *)
(* contents and the start requests are drawn in Init; the requests that    *)
(* fail are drawn step by step, at most MaxFaults of them.                 *)
(***************************************************************************)
EXTENDS Integers, Sequences, FiniteSets, TLC

(***************************************************************************)
(* Bounds of the model and constants of the program.                       *)
(***************************************************************************)
\* Fixture lists of 0..SmallN fixtures are taken with every store content.
SmallN == 3
\* The longest fixture list taken (three chunks).
BigN == 45
\* How many requests to the remote API or to the store may fail, and how
\* many fetched fixtures may lack a field, in one behaviour.
MaxFaults == 1
\* Requests for one of the FaultEdge first or last fixtures of a list may fail.
FaultEdge == 1
\* The rows of a start request.
MaxSelections == 2
\* chunk_size of process_collection.
chunk_size == 20

Threads == {"t1", "t2"}
\* The (league, season) selection of a complete row and of an incomplete one
\* (league_id None).
League == "39"
Season == "2024"
NoLeague == ""
\* The date the remote serves for every fixture, and an earlier one.
FetchedDate == "2024-08-17T14:00:00+00:00"
OldDate == "2024-08-10T14:00:00+00:00"
\* The sub-resources of a fixture, in the order collect_fixture_details
\* requests them.
DetailKinds == <<"events", "lineups", "statistics", "players">>

VARIABLES
    global_state,   \* the GlobalState object
    log_list,       \* the list object global_state.log_messages is bound to
    store,          \* collection 'fixtures': document id -> document
    remote,         \* the fixtures the remote lists for (League, Season)
    faults_left,    \* failures the environment may still inject
    pc,             \* per handler thread: where it stands
    args,           \* per handler thread: league_ids of its start request
    idx,            \* per handler thread: position in zip(league_ids, seasons)
    run,            \* per handler thread: locals of its process_collection
    requests_left,  \* per handler thread: start requests still to arrive
    history         \* the runs that ended, in the order they ended

VARIABLES
    now,            \* the clock, in seconds: time.time(), datetime.now()
    cache,          \* FootballAPI.cache: cache_type -> key -> (data, timestamp)
    cache_op,       \* the last direct call of a cache method and what it returned
    limiter,        \* a RateLimiter and its caller's place in wait_if_needed
    admitted,       \* the times at which wait_if_needed returned
    batch_call,     \* the locals of a _batch_request call
    http,           \* what _batch_request did: lookups, GETs, sleeps, in order
    fetch_call,     \* the locals of a fetch_* call and what it returned
    cache_thread,   \* per thread calling the cache methods: where it stands
    limiter_thread  \* per thread calling wait_if_needed: where it stands

pipeline_vars == <<global_state, log_list, store, remote, faults_left, pc, args, idx, run,
                   requests_left, history>>
cache_vars == <<cache, cache_op>>
limiter_vars == <<limiter, admitted>>
batch_vars == <<batch_call, http>>
caller_vars == <<fetch_call, cache_thread, limiter_thread>>
component_vars == <<now, cache_vars, limiter_vars, batch_vars, caller_vars>>
vars == <<pipeline_vars, component_vars>>


(***************************************************************************)
(* Values.                                                                 *)
(***************************************************************************)
\* A status or log message: the text add_log is called with, its numbers
\* kept apart (the "[HH:MM:SS] " prefix of a log line is left out).
Msg(kind, a, b, text) == [kind |-> kind, a |-> a, b |-> b, text |-> text]

\* The 'response' list the remote serves for one sub-resource of a fixture.
Served(id, kind) == <<[fixture |-> id, kind |-> kind, rev |-> 1]>>
\* What an earlier ingestion stored for a fixture that has changed since.
Stale(id, kind) == <<[fixture |-> id, kind |-> kind, rev |-> 0]>>

\* A dict as a function on its keys; d.get(k, default).
EmptyDict == [k \in {} |-> <<>>]
Get(d, k, default) == IF k \in DOMAIN d THEN d[k] ELSE default

\* One entry of the fixture list: fixture['fixture'] and the top-level keys
\* the entry has.
AllKeys == {"fixture", "league", "teams", "goals", "score"}
Fixture(id, date, keys) == [fixture |-> [id |-> id, date |-> date], keys |-> keys]

\* The document process_collection assembles (league, teams, goals and
\* score are copied from the fixture as they are and left out, as is
\* updated_at).
FixtureData(fixture, details) ==
    [fixture    |-> fixture.fixture,
     events     |-> Get(details, "events", <<>>),
     lineups    |-> Get(details, "lineups", <<>>),
     statistics |-> Get(details, "statistics", <<>>),
     players    |-> Get(details, "players", <<>>)]

\* The dict collect_fixture_details returns when its four requests succeed.
FullDetails(id) == [k \in {"events", "lineups", "statistics", "players"} |-> Served(id, k)]

\* The documents of the store before the first run.
UpToDateDoc(id) == FixtureData(Fixture(id, FetchedDate, AllKeys), FullDetails(id))
ChangedDoc(id) ==
    [fixture    |-> [id |-> id, date |-> OldDate],
     events     |-> Stale(id, "events"),
     lineups    |-> Stale(id, "lineups"),
     statistics |-> Stale(id, "statistics"),
     players    |-> Stale(id, "players")]

\* fixtures[i:i + chunk_size] for i in range(0, len(fixtures), chunk_size)
Min(a, b) == IF a < b THEN a ELSE b
NumChunks(n) == (n + chunk_size - 1) \div chunk_size
\* The chunks taken from the last to the first.
Chunks_LastFirst(fixtures) ==
    [c \in 1..NumChunks(Len(fixtures)) |->
        SubSeq(fixtures, (NumChunks(Len(fixtures)) - c) * chunk_size + 1,
               Min((NumChunks(Len(fixtures)) - c + 1) * chunk_size, Len(fixtures)))]
Chunks(fixtures) ==
    [c \in 1..NumChunks(Len(fixtures)) |->
        SubSeq(fixtures, (c - 1) * chunk_size + 1, Min(c * chunk_size, Len(fixtures)))]

\* Tenths cutting the digits after the first decimal instead of rounding.
Tenths_Truncated(processed, total) == (1000 * processed) \div total

\* f"{progress:.1f}" of progress = (processed / total) * 100, in tenths of a
\* percent: the nearest tenth, an exact tie (total 16 or 32) to the even one.
\* Agrees with the float arithmetic for every total below 80.
Tenths(processed, total) ==
    LET q == (1000 * processed) \div total
        r == (1000 * processed) % total
    IN  IF 2 * r < total THEN q
        ELSE IF 2 * r > total THEN q + 1
        ELSE IF q % 2 = 0 THEN q ELSE q + 1
\* ProgressText of the fixtures still to be processed.
ProgressText_Remaining(processed, total) ==
    <<Tenths(total - processed, total), total - processed, total>>
\* f"Progress: {progress:.1f}% ({total_processed}/{total_fixtures})"
ProgressText(processed, total) == <<Tenths(processed, total), processed, total>>

(***************************************************************************)
(* GlobalState.                                                            *)
(***************************************************************************)
Ready == Msg("Ready", 0, 0, "")
GlobalState ==
    [current_status   |-> Ready,
     current_progress |-> <<>>,
     current_error    |-> "",
     log_messages     |-> <<>>,
     is_running       |-> FALSE]

(***************************************************************************)
(* The pieces of process_collection.                                       *)
(***************************************************************************)
\* IsUpToDate reading the date at the top level of the stored document,
\* where there is none.
IsUpToDate_TopLevelDate(st, fixture) ==
    /\ fixture.fixture.id \in DOMAIN st
    /\ Get(st[fixture.fixture.id], "date", "") = fixture.fixture.date

\* Lines 184-191: the stored document exists and has the fetched date.
IsUpToDate(st, fixture) ==
    /\ fixture.fixture.id \in DOMAIN st
    /\ st[fixture.fixture.id].fixture.date = fixture.fixture.date

\* CommitDue committing full batches only.
CommitDue_FullBatch(total_processed, batch) == Len(batch) >= chunk_size

\* Line 215: the condition under which the chunk's batch is committed.
CommitDue(total_processed, batch) == total_processed > 0

\* Commit losing the last document of the batch.
Commit_DropLast(st, batch) ==
    [id \in DOMAIN st \cup {batch[k].id : k \in 1..Len(batch) - 1} |->
        IF \E k \in 1..Len(batch) - 1 : batch[k].id = id
        THEN (CHOOSE x \in {batch[k] : k \in 1..Len(batch) - 1} : x.id = id).data
        ELSE st[id]]

\* Commit leaving in the store the documents of the batch only.
Commit_OnlyBatch(st, batch) ==
    [id \in {batch[k].id : k \in 1..Len(batch)} |->
        (CHOOSE x \in {batch[k] : k \in 1..Len(batch)} : x.id = id).data]

\* batch.commit(): every document of the batch is set, in the batch's order.
Commit(st, batch) ==
    LET ids == {batch[k].id : k \in 1..Len(batch)}
        last(id) == CHOOSE k \in 1..Len(batch) :
                        /\ batch[k].id = id
                        /\ \A m \in 1..Len(batch) : batch[m].id = id => m <= k
    IN  [id \in DOMAIN st \cup ids |->
            IF id \in ids THEN batch[last(id)].data ELSE st[id]]

\* DetailRequests without the players request.
DetailRequests_NoPlayers(ok) == Min(ok + 1, Len(DetailKinds) - 1)

\* The requests collect_fixture_details issues when its first `ok` requests
\* succeed: all four, or up to the first that fails.
DetailRequests(ok) == Min(ok + 1, Len(DetailKinds))
\* collect_fixture_details returning what it fetched before the failure.
collect_fixture_details_Partial(fixture_id, ok) ==
    [k \in {DetailKinds[i] : i \in 1..ok} |-> Served(fixture_id, k)]

\* What collect_fixture_details returns then.
collect_fixture_details(fixture_id, ok) ==
    IF ok = Len(DetailKinds) THEN FullDetails(fixture_id) ELSE EmptyDict

\* The locals of a run, with what the run has asked of the remote and of
\* the store so far; while add_log is called: its message, the list object
\* it read from global_state.log_messages and where the run goes on after.
NoRun ==
    [outcome |-> "none", error |-> "", fixtures |-> <<>>, i |-> 0, j |-> 0,
     batch |-> <<>>, total_processed |-> 0, store0 |-> EmptyDict,
     details |-> EmptyDict, lookups |-> 0, writes |-> <<>>, faults |-> 0,
     message |-> Ready, list |-> 0, after |-> ""]
NewRun(st) == [NoRun EXCEPT !.outcome = "running", !.store0 = st]

\* Position of fixture j of chunk i in the fixture list.
Pos(i, j) == (i - 1) * chunk_size + j
\* A request for the fixture at position pos of n may fail.
FaultProne(n, pos) == pos <= FaultEdge \/ pos > n - FaultEdge

\* What is kept of a run that ended.
Summary(r) ==
    [outcome |-> r.outcome, error |-> r.error, total |-> Len(r.fixtures),
     processed |-> r.total_processed, lookups |-> r.lookups,
     details |-> r.details, writes |-> r.writes, faults |-> r.faults]

(***************************************************************************)
(* start_collection, one handler thread t per request.                     *)
(***************************************************************************)
Complete(sel) == sel.league # NoLeague /\ sel.season # ""
Selection(league) == [league |-> league, season |-> Season]

\* Lines 369-372 and 389: PreventUpdate, or the read of is_running.
\* start_collection without the test of line 372.
StartCollection_NoCheck(t, league_ids) ==
    /\ pc[t] = "idle"
    /\ requests_left[t] > 0
    /\ requests_left' = [requests_left EXCEPT ![t] = @ - 1]
    /\ IF league_ids # <<>>
       THEN /\ pc' = [pc EXCEPT ![t] = "373"]
            /\ args' = [args EXCEPT ![t] = league_ids]
       ELSE UNCHANGED <<pc, args>>
    /\ UNCHANGED <<global_state, log_list, store, remote, faults_left, idx, run,
                   history>>
    /\ UNCHANGED component_vars

StartCollection(t, league_ids) ==
    /\ pc[t] = "idle"
    /\ requests_left[t] > 0
    /\ requests_left' = [requests_left EXCEPT ![t] = @ - 1]
    /\ IF league_ids # <<>> /\ ~global_state.is_running
       THEN /\ pc' = [pc EXCEPT ![t] = "373"]
            /\ args' = [args EXCEPT ![t] = league_ids]
       ELSE UNCHANGED <<pc, args>>
    /\ UNCHANGED <<global_state, log_list, store, remote, faults_left, idx, run,
                   history>>
    /\ UNCHANGED component_vars

\* Lines 373-377, one store each: is_running, current_status,
\* current_progress, current_error, and log_messages bound to a new list.
SC_Set(t) ==
    /\ pc[t] \in {"373", "374", "375", "376", "377"}
    /\ global_state' =
        CASE pc[t] = "373" -> [global_state EXCEPT !.is_running = TRUE]
          [] pc[t] = "374" -> [global_state EXCEPT !.current_status =
                                    Msg("Starting collection...", 0, 0, "")]
          [] pc[t] = "375" -> [global_state EXCEPT !.current_progress = <<>>]
          [] pc[t] = "376" -> [global_state EXCEPT !.current_error = ""]
          [] pc[t] = "377" -> [global_state EXCEPT !.log_messages = <<>>]
    /\ log_list' = IF pc[t] = "377" THEN log_list + 1 ELSE log_list
    /\ idx' = [idx EXCEPT ![t] = IF pc[t] = "377" THEN 1 ELSE @]
    /\ pc' = [pc EXCEPT ![t] =
                CASE pc[t] = "373" -> "374"
                  [] pc[t] = "374" -> "375"
                  [] pc[t] = "375" -> "376"
                  [] pc[t] = "376" -> "377"
                  [] pc[t] = "377" -> "sc_loop"]
    /\ UNCHANGED <<store, remote, faults_left, args, run, requests_left, history>>
    /\ UNCHANGED component_vars

\* Lines 380-386: the next selection; a complete one starts a worker thread.
SC_Spawn(t) ==
    /\ pc[t] = "sc_loop"
    /\ idx[t] <= Len(args[t])
    /\ Complete(args[t][idx[t]])
    /\ run' = [run EXCEPT ![t] = NewRun(store)]
    /\ pc' = [pc EXCEPT ![t] = "pc_begin"]
    /\ UNCHANGED <<global_state, log_list, store, remote, faults_left, args, idx,
                   requests_left, history>>
    /\ UNCHANGED component_vars

SC_SkipIncomplete(t) ==
    /\ pc[t] = "sc_loop"
    /\ idx[t] <= Len(args[t])
    /\ ~Complete(args[t][idx[t]])
    /\ idx' = [idx EXCEPT ![t] = @ + 1]
    /\ UNCHANGED <<global_state, log_list, store, remote, faults_left, pc, args,
                   run, requests_left, history>>
    /\ UNCHANGED component_vars

\* SC_Return leaving the loop of line 380 before its last row.
SC_Return_Early(t) ==
    /\ pc[t] = "sc_loop"
    /\ pc' = [pc EXCEPT ![t] = "idle"]
    /\ UNCHANGED <<global_state, log_list, store, remote, faults_left, args, idx,
                   run, requests_left, history>>
    /\ UNCHANGED component_vars

\* Line 389, reached when the loop of lines 380-387 is through.
SC_Return(t) ==
    /\ pc[t] = "sc_loop"
    /\ idx[t] > Len(args[t])
    /\ pc' = [pc EXCEPT ![t] = "idle"]
    /\ UNCHANGED <<global_state, log_list, store, remote, faults_left, args, idx,
                   run, requests_left, history>>
    /\ UNCHANGED component_vars

\* The worker thread of t ends and thread.join() returns (line 387).
EndRun(t, r) ==
    /\ run' = [run EXCEPT ![t] = r]
    /\ history' = Append(history, Summary(r))
    /\ pc' = [pc EXCEPT ![t] = "sc_loop"]
    /\ idx' = [idx EXCEPT ![t] = @ + 1]

(***************************************************************************)
(* add_log (lines 139-145), called by the worker thread of t.  It takes no *)
(* lock: the handler thread of another request may run between its steps.  *)
(***************************************************************************)
\* The call add_log(message) by the run with locals r, which goes on at
\* `after` when the call returns.
Call_add_log(t, r, message, after) ==
    /\ run' = [run EXCEPT ![t] = [r EXCEPT !.message = message, !.after = after]]
    /\ pc' = [pc EXCEPT ![t] = "add_log"]

\* Lines 140-142: the timestamp, the print and the read of
\* global_state.log_messages, the list the entry is going to be appended to.
AL_Read(t) ==
    /\ pc[t] = "add_log"
    /\ run' = [run EXCEPT ![t].list = log_list]
    /\ pc' = [pc EXCEPT ![t] = "142"]
    /\ UNCHANGED <<global_state, log_list, store, remote, faults_left, args, idx,
                   requests_left, history>>
    /\ UNCHANGED component_vars

\* Lines 142-144: html.Div(...) is built and appended to the list read, which
\* global_state.log_messages no longer names when line 377 ran in between.
AL_Append(t) ==
    /\ pc[t] = "142"
    /\ global_state' =
        IF run[t].list = log_list
        THEN [global_state EXCEPT !.log_messages = Append(@, run[t].message)]
        ELSE global_state
    /\ pc' = [pc EXCEPT ![t] = "145"]
    /\ UNCHANGED <<log_list, store, remote, faults_left, args, idx, run,
                   requests_left, history>>
    /\ UNCHANGED component_vars

\* Line 145, and the return to the caller.
AL_Status(t) ==
    /\ pc[t] = "145"
    /\ global_state' = [global_state EXCEPT !.current_status = run[t].message]
    /\ run' = [run EXCEPT ![t].message = Ready, ![t].list = 0, ![t].after = ""]
    /\ pc' = [pc EXCEPT ![t] = run[t].after]
    /\ UNCHANGED <<log_list, store, remote, faults_left, args, idx, requests_left,
                   history>>
    /\ UNCHANGED component_vars

(***************************************************************************)
(* process_collection, in the worker thread that handler thread t joins.   *)
(***************************************************************************)
\* An exception with message error_message reaches the except clause: lines
\* 225-227, up to the call of add_log.
Raise(t, r, error_message) ==
    /\ Call_add_log(t, [r EXCEPT !.error = error_message],
                    Msg("ERROR", 0, 0, error_message), "228")
    /\ UNCHANGED <<global_state, log_list, idx, history>>

\* A request of run r fails: the environment spends one of its failures.
Fault(r) == [r EXCEPT !.faults = @ + 1]

\* Line 228.
PC_Error(t) ==
    /\ pc[t] = "228"
    /\ global_state' = [global_state EXCEPT !.current_error = run[t].error]
    /\ pc' = [pc EXCEPT ![t] = "229"]
    /\ UNCHANGED <<log_list, store, remote, faults_left, args, idx, run,
                   requests_left, history>>
    /\ UNCHANGED component_vars

\* Line 229: the run ends as failed.
PC_Failed(t) ==
    /\ pc[t] = "229"
    /\ global_state' = [global_state EXCEPT !.is_running = FALSE]
    /\ EndRun(t, [run[t] EXCEPT !.outcome = "failed"])
    /\ UNCHANGED <<log_list, store, remote, faults_left, args, requests_left>>
    /\ UNCHANGED component_vars

\* Lines 136-147.
PC_Begin(t) ==
    /\ pc[t] = "pc_begin"
    /\ Call_add_log(t, run[t], Msg("Starting data collection", 0, 0, League),
                    "pc_fetch")
    /\ UNCHANGED <<global_state, log_list, store, remote, faults_left, args, idx,
                   requests_left, history>>
    /\ UNCHANGED component_vars

\* Line 137 raises (no default Firebase app, no credentials): the except
\* clause calls add_log, which is bound only at line 139, so it raises
\* UnboundLocalError itself and the worker thread dies with lines 228-229
\* not executed.
PC_BeginRaises(t) ==
    /\ pc[t] = "pc_begin"
    /\ faults_left > 0
    /\ faults_left' = faults_left - 1
    /\ EndRun(t, [Fault(run[t]) EXCEPT !.outcome = "crashed",
                                       !.error = "firestore client"])
    /\ UNCHANGED <<global_state, log_list, store, remote, args, requests_left>>
    /\ UNCHANGED component_vars

\* Lines 149-158 raise: the fixtures request fails.
PC_FetchRaises(t) ==
    /\ pc[t] = "pc_fetch"
    /\ faults_left > 0
    /\ faults_left' = faults_left - 1
    /\ Raise(t, Fault(run[t]), "fixtures request failed")
    /\ UNCHANGED <<store, remote, args, requests_left>>
    /\ UNCHANGED component_vars

\* Lines 149-161: no fixtures.
PC_FetchEmpty(t) ==
    /\ pc[t] = "pc_fetch"
    /\ remote = <<>>
    /\ Call_add_log(t, run[t], Msg("No fixtures found", 0, 0, ""), "162")
    /\ UNCHANGED <<global_state, log_list, store, remote, faults_left, args, idx,
                   requests_left, history>>
    /\ UNCHANGED component_vars

\* Line 163 without line 162: the early return leaves is_running set.
PC_NoFixtures_KeepsRunning(t) ==
    /\ pc[t] = "162"
    /\ EndRun(t, [run[t] EXCEPT !.outcome = "completed"])
    /\ UNCHANGED <<global_state, log_list, store, remote, faults_left, args,
                   requests_left>>
    /\ UNCHANGED component_vars

\* Lines 162-163: the run ends as completed.
PC_NoFixtures(t) ==
    /\ pc[t] = "162"
    /\ global_state' = [global_state EXCEPT !.is_running = FALSE]
    /\ EndRun(t, [run[t] EXCEPT !.outcome = "completed"])
    /\ UNCHANGED <<log_list, store, remote, faults_left, args, requests_left>>
    /\ UNCHANGED component_vars

\* Lines 149-167: the fixtures are there.
PC_Fetch(t) ==
    /\ pc[t] = "pc_fetch"
    /\ remote # <<>>
    /\ Call_add_log(t, [run[t] EXCEPT !.fixtures = remote, !.i = 1],
                    Msg("Found fixtures to process", Len(remote), 0, ""),
                    "pc_chunk")
    /\ UNCHANGED <<global_state, log_list, store, remote, faults_left, args, idx,
                   requests_left, history>>
    /\ UNCHANGED component_vars

\* Lines 173-174.
PC_Chunk(t) ==
    /\ pc[t] = "pc_chunk"
    /\ Call_add_log(t, run[t],
            Msg("Processing chunk", run[t].i, NumChunks(Len(run[t].fixtures)), ""),
            "175")
    /\ UNCHANGED <<global_state, log_list, store, remote, faults_left, args, idx,
                   requests_left, history>>
    /\ UNCHANGED component_vars

\* Lines 175-177: a new batch, and the first fixture of the chunk.
PC_Batch(t) ==
    /\ pc[t] = "175"
    /\ run' = [run EXCEPT ![t].batch = <<>>, ![t].j = 1]
    /\ pc' = [pc EXCEPT ![t] = "pc_fixture"]
    /\ UNCHANGED <<global_state, log_list, store, remote, faults_left, args, idx,
                   requests_left, history>>
    /\ UNCHANGED component_vars

\* The fixture the run stands at, and the step to the next one.
Current(r) == Chunks(r.fixtures)[r.i][r.j]
AtPos(r) == Pos(r.i, r.j)
Advance(t, r) ==
    /\ run' = [run EXCEPT ![t] =
                 IF r.j < Len(Chunks(r.fixtures)[r.i]) THEN [r EXCEPT !.j = @ + 1] ELSE r]
    /\ pc' = [pc EXCEPT ![t] =
                 IF r.j < Len(Chunks(r.fixtures)[r.i]) THEN "pc_fixture" ELSE "pc_commit"]

\* Line 182 raises: the store lookup fails.
PC_LookupRaises(t) ==
    /\ pc[t] = "pc_fixture"
    /\ faults_left > 0
    /\ FaultProne(Len(run[t].fixtures), AtPos(run[t]))
    /\ faults_left' = faults_left - 1
    /\ Raise(t, [Fault(run[t]) EXCEPT !.lookups = @ + 1], "lookup failed")
    /\ UNCHANGED <<store, remote, args, requests_left>>
    /\ UNCHANGED component_vars

\* Lines 178-190: the fixture is up to date.
PC_Skip(t) ==
    /\ pc[t] = "pc_fixture"
    /\ IsUpToDate(store, Current(run[t]))
    /\ Call_add_log(t, [run[t] EXCEPT !.lookups = @ + 1],
            Msg("Skipping fixture", Current(run[t]).fixture.id, 0, ""), "191")
    /\ UNCHANGED <<global_state, log_list, store, remote, faults_left, args, idx,
                   requests_left, history>>
    /\ UNCHANGED component_vars

\* Line 191: on to the next fixture of the chunk.
PC_Continue(t) ==
    /\ pc[t] = "191"
    /\ Advance(t, run[t])
    /\ UNCHANGED <<global_state, log_list, store, remote, faults_left, args, idx,
                   requests_left, history>>
    /\ UNCHANGED component_vars

\* Line 193 raises KeyError: the fixture has no 'teams'.
PC_NoTeams(t) ==
    /\ pc[t] = "pc_fixture"
    /\ ~IsUpToDate(store, Current(run[t]))
    /\ "teams" \notin Current(run[t]).keys
    /\ Raise(t, [run[t] EXCEPT !.lookups = @ + 1], "'teams'")
    /\ UNCHANGED <<store, remote, faults_left, args, requests_left>>
    /\ UNCHANGED component_vars

\* Lines 178-196: the fixture is not up to date and has its 'teams'; the
\* log line of line 196.
PC_Process(t) ==
    /\ pc[t] = "pc_fixture"
    /\ ~IsUpToDate(store, Current(run[t]))
    /\ "teams" \in Current(run[t]).keys
    /\ Call_add_log(t, [run[t] EXCEPT !.lookups = @ + 1],
            Msg("Processing fixture", Current(run[t]).fixture.id, 0, ""),
            "pc_details")
    /\ UNCHANGED <<global_state, log_list, store, remote, faults_left, args, idx,
                   requests_left, history>>
    /\ UNCHANGED component_vars

\* Lines 197-213, with the first `ok` requests of collect_fixture_details
\* succeeding: the detail requests, and the record added to the batch or
\* the KeyError of lines 201-204 on its way to the except clause.
PC_Details(t, ok) ==
    LET r == run[t]
        fixture == Current(r)
        id == fixture.fixture.id
        asked == [x \in DOMAIN r.details \cup {id} |->
                    IF x = id THEN Get(r.details, id, 0) + DetailRequests(ok)
                    ELSE r.details[x]]
        r1 == [r EXCEPT !.details = asked,
                        !.faults = IF ok < Len(DetailKinds) THEN @ + 1 ELSE @]
        fixture_data == FixtureData(fixture, collect_fixture_details(id, ok))
    IN  /\ pc[t] = "pc_details"
        /\ IF ok < Len(DetailKinds)
           THEN /\ faults_left > 0
                /\ FaultProne(Len(r.fixtures), AtPos(r))
                /\ faults_left' = faults_left - 1
           ELSE UNCHANGED faults_left
        /\ IF {"league", "goals", "score"} \subseteq fixture.keys
           THEN \* lines 199-213
                /\ Advance(t, [r1 EXCEPT
                        !.batch = Append(@, [id |-> id, data |-> fixture_data]),
                        !.total_processed = @ + 1])
                /\ UNCHANGED <<global_state, log_list, idx, history>>
           ELSE \* lines 201-204 raise KeyError
                Raise(t, r1, IF "league" \notin fixture.keys THEN "'league'"
                             ELSE IF "goals" \notin fixture.keys THEN "'goals'"
                             ELSE "'score'")
        /\ UNCHANGED <<store, remote, args, requests_left>>
        /\ UNCHANGED component_vars

\* Line 216 raises: the batch write fails and writes nothing.
PC_CommitRaises(t) ==
    /\ pc[t] = "pc_commit"
    /\ CommitDue(run[t].total_processed, run[t].batch)
    /\ faults_left > 0
    /\ faults_left' = faults_left - 1
    /\ Raise(t, Fault(run[t]), "commit failed")
    /\ UNCHANGED <<store, remote, args, requests_left>>
    /\ UNCHANGED component_vars

\* Lines 215-217: the batch write and its log line, when there is one.
PC_Commit(t) ==
    LET r == run[t]
        n == NumChunks(Len(r.fixtures))
    IN  /\ pc[t] = "pc_commit"
        /\ IF CommitDue(r.total_processed, r.batch)
           THEN /\ store' = Commit(store, r.batch)
                /\ Call_add_log(t, [r EXCEPT !.writes = Append(@, r.batch)],
                                Msg("Committed batch", r.i, n, ""), "219")
           ELSE /\ pc' = [pc EXCEPT ![t] = "219"]
                /\ UNCHANGED <<store, run>>
        /\ UNCHANGED <<global_state, log_list, remote, faults_left, args, idx,
                       requests_left, history>>
        /\ UNCHANGED component_vars

\* Lines 219-220, and on to the next chunk.
PC_Progress(t) ==
    LET r == run[t]
        n == NumChunks(Len(r.fixtures))
    IN  /\ pc[t] = "219"
        /\ global_state' = [global_state EXCEPT !.current_progress =
                                ProgressText(r.total_processed, Len(r.fixtures))]
        /\ run' = [run EXCEPT ![t].i = IF r.i < n THEN @ + 1 ELSE @]
        /\ pc' = [pc EXCEPT ![t] = IF r.i < n THEN "pc_chunk" ELSE "pc_finish"]
        /\ UNCHANGED <<log_list, store, remote, faults_left, args, idx,
                       requests_left, history>>
        /\ UNCHANGED component_vars

\* Line 222.
PC_Finish(t) ==
    /\ pc[t] = "pc_finish"
    /\ Call_add_log(t, run[t],
                    Msg("Data collection completed successfully!", 0, 0, ""), "223")
    /\ UNCHANGED <<global_state, log_list, store, remote, faults_left, args, idx,
                   requests_left, history>>
    /\ UNCHANGED component_vars

\* Line 223: the run ends as completed.
PC_Completed(t) ==
    /\ pc[t] = "223"
    /\ global_state' = [global_state EXCEPT !.is_running = FALSE]
    /\ EndRun(t, [run[t] EXCEPT !.outcome = "completed"])
    /\ UNCHANGED <<log_list, store, remote, faults_left, args, requests_left>>
    /\ UNCHANGED component_vars

(***************************************************************************)
(* The cache of FootballAPI (src/api.py).  Time is in whole seconds.       *)
(***************************************************************************)
\* How many _set_cache calls one behaviour of the cache takes.
MaxSets == 2

CacheTypes == {"short", "medium", "long"}
\* 'duration' of each cache store: 15 minutes, 6 hours, 24 hours.
Duration == [short |-> 15 * 60, medium |-> 6 * 60 * 60, long |-> 24 * 60 * 60]
\* The keys and the data the cache is exercised with.
CacheKeys == {"k1", "k2"}
CacheData == {"v1", "v2"}
\* Python's None.
None == "None"

\* The instants the clock takes: the start, and for each cache type the
\* last second before its duration has passed and the second it has.
Instants == {0} \cup {Duration[T] - 1 : T \in CacheTypes}
                \cup {Duration[T] : T \in CacheTypes}

\* _initialize_cache, then _clear_cache(): every store empty.
InitialCache == [cache_type \in CacheTypes |-> EmptyDict]

\* del d[key]
Without(d, key) == [k \in DOMAIN d \ {key} |-> d[k]]

\* _clear_cache(cache_type); cache_type None clears every store.
clear_cache(c, cache_type) ==
    IF cache_type # None
    THEN [c EXCEPT ![cache_type] = EmptyDict]
    ELSE InitialCache

\* _set_cache that leaves an entry already there (dict.setdefault).
set_cache_KeepExisting(c, key, data, cache_type, t) ==
    IF key \in DOMAIN c[cache_type]
    THEN c
    ELSE [c EXCEPT ![cache_type] =
            [k \in DOMAIN c[cache_type] \cup {key} |->
                IF k = key THEN <<data, t>> ELSE c[cache_type][k]]]

\* _set_cache(key, data, cache_type) at time t.
set_cache(c, key, data, cache_type, t) ==
    [c EXCEPT ![cache_type] =
        [k \in DOMAIN c[cache_type] \cup {key} |->
            IF k = key THEN <<data, t>> ELSE c[cache_type][k]]]

\* _get_from_cache comparing with <= : an entry is served for one second
\* more than its duration.
get_from_cache_Inclusive(c, key, cache_type, t) ==
    LET cache_store == c[cache_type] IN
    IF key \in DOMAIN cache_store
    THEN IF t - cache_store[key][2] <= Duration[cache_type]
         THEN [data |-> cache_store[key][1], cache |-> c]
         ELSE [data |-> None,
               cache |-> [c EXCEPT ![cache_type] = Without(cache_store, key)]]
    ELSE [data |-> None, cache |-> c]

\* _get_from_cache(key, cache_type) at time t: what it returns and the
\* cache it leaves.
get_from_cache(c, key, cache_type, t) ==
    LET cache_store == c[cache_type] IN
    IF key \in DOMAIN cache_store
    THEN IF t - cache_store[key][2] < Duration[cache_type]
         THEN [data |-> cache_store[key][1], cache |-> c]
         ELSE [data |-> None,
               cache |-> [c EXCEPT ![cache_type] = Without(cache_store, key)]]
    ELSE [data |-> None, cache |-> c]

\* The (data, timestamp) a store holds for key, if any.
NoEntry == <<None>>
Entry(c, key, cache_type) == Get(c[cache_type], key, NoEntry)

\* The last cache operation: its name, its arguments, the data it stored or
\* returned, the entry it found, and how many _set_cache calls were made
\* so far.
CacheOp(op, key, cache_type, data, before, sets) ==
    [op |-> op, key |-> key, cache_type |-> cache_type, data |-> data,
     before |-> before, sets |-> sets]
NoCacheOp == CacheOp("", "", None, None, NoEntry, 0)

CacheSet(key, data, cache_type) ==
    /\ cache_op.sets < MaxSets
    /\ cache' = set_cache(cache, key, data, cache_type, now)
    /\ cache_op' = CacheOp("set", key, cache_type, data,
                        Entry(cache, key, cache_type), cache_op.sets + 1)
    /\ UNCHANGED <<now, limiter_vars, batch_vars, caller_vars, pipeline_vars>>

CacheGet(key, cache_type) ==
    LET got == get_from_cache(cache, key, cache_type, now) IN
    /\ cache' = got.cache
    /\ cache_op' = CacheOp("get", key, cache_type, got.data,
                        Entry(cache, key, cache_type), cache_op.sets)
    /\ UNCHANGED <<now, limiter_vars, batch_vars, caller_vars, pipeline_vars>>

\* _clear_cache is called on a cache that holds something to clear.
CacheClear(cache_type) ==
    /\ clear_cache(cache, cache_type) # cache
    /\ cache' = clear_cache(cache, cache_type)
    /\ cache_op' = CacheOp("clear", "", cache_type, None, NoEntry, cache_op.sets)
    /\ UNCHANGED <<now, limiter_vars, batch_vars, caller_vars, pipeline_vars>>

\* Time passes between two operations, while the cache holds an entry:
\* over an empty cache no age is measured.
CachePass(t) ==
    /\ t > now
    /\ cache # InitialCache
    /\ now' = t
    /\ cache_op' = CacheOp("pass", "", None, None, NoEntry, cache_op.sets)
    /\ UNCHANGED <<cache, limiter_vars, batch_vars, caller_vars, pipeline_vars>>

CacheNext ==
    \/ \E key \in CacheKeys, data \in CacheData, cache_type \in CacheTypes :
            CacheSet(key, data, cache_type)
    \/ \E key \in CacheKeys, cache_type \in CacheTypes : CacheGet(key, cache_type)
    \/ \E cache_type \in CacheTypes \cup {None} : CacheClear(cache_type)
    \/ \E t \in Instants : CachePass(t)

(***************************************************************************)
(* RateLimiter (src/callbacks/data_collection_callback.py), one caller.    *)
(***************************************************************************)
\* RateLimiters of 1..MaxRate calls per minute are taken.
MaxRate == 2
\* How many wait_if_needed calls one behaviour takes.
MaxWaits == 4
\* The latest second at which the caller starts a call.
MaxNow == 121
\* time.sleep returns up to MaxOversleep seconds late.
MaxOversleep == 1
\* The 60 seconds of wait_if_needed.
Window == 60

\* The seconds at which the caller may call: the start of each window, one
\* second later and one second before the next.
CallTimes == {t \in 0..MaxNow : t % Window \in {0, 1, Window - 1}}

\* RateLimiter(calls_per_minute), and where its caller stands:
\* "idle" outside wait_if_needed, "sleep" in time.sleep of line 71.
RateLimiter(calls_per_minute) ==
    [calls_per_minute |-> calls_per_minute,
     calls            |-> <<>>,
     pc               |-> "idle",
     now              |-> 0,
     sleep_time       |-> 0]
NoLimiter == RateLimiter(0)

\* Line 67: the calls less than 60 seconds old.
Prune(calls, t) == SelectSeq(calls, LAMBDA call_time : t - call_time < Window)

\* Line 69 with the sign of the elapsed time wrong.
SleepTime_Plus(calls, t) == Window + (t - calls[1])

\* Line 69.
SleepTime(calls, t) == Window - (t - calls[1])

\* Line 68 with > for >= : one call more is let through.
MustSleep_OffByOne(l, calls, t) ==
    /\ Len(calls) > l.calls_per_minute
    /\ SleepTime(calls, t) > 0

\* Lines 68 and 70: the call sleeps.
MustSleep(l, calls, t) ==
    /\ Len(calls) >= l.calls_per_minute
    /\ SleepTime(calls, t) > 0

\* wait_if_needed that goes to sleep: lines 66-71.
WaitSleep ==
    LET calls == Prune(limiter.calls, now) IN
    /\ limiter.pc = "idle"
    /\ Len(admitted) < MaxWaits
    /\ MustSleep(limiter, calls, now)
    /\ limiter' = [limiter EXCEPT !.calls = calls, !.now = now, !.pc = "sleep",
                                  !.sleep_time = SleepTime(calls, now)]
    /\ UNCHANGED <<now, admitted, cache_vars, batch_vars, caller_vars, pipeline_vars>>

\* time.sleep returns, the call is recorded, wait_if_needed returns:
\* lines 71-72.
WaitWake(late) ==
    /\ limiter.pc = "sleep"
    /\ now' = now + limiter.sleep_time + late
    /\ limiter' = [limiter EXCEPT !.calls = Append(@, limiter.now), !.pc = "idle"]
    /\ admitted' = Append(admitted, now')
    /\ UNCHANGED <<cache_vars, batch_vars, caller_vars, pipeline_vars>>

\* wait_if_needed that does not sleep: lines 66-68, 72.
WaitNoSleep ==
    LET calls == Prune(limiter.calls, now) IN
    /\ limiter.pc = "idle"
    /\ Len(admitted) < MaxWaits
    /\ ~MustSleep(limiter, calls, now)
    /\ limiter' = [limiter EXCEPT !.calls = Append(calls, now), !.now = now,
                                  !.sleep_time = 0]
    /\ admitted' = Append(admitted, now)
    /\ UNCHANGED <<now, cache_vars, batch_vars, caller_vars, pipeline_vars>>

\* Time passes between two calls.
LimiterPass(t) ==
    /\ limiter.pc = "idle"
    /\ t > now
    /\ now' = t
    /\ UNCHANGED <<limiter_vars, cache_vars, batch_vars, caller_vars, pipeline_vars>>

LimiterNext ==
    \/ WaitSleep
    \/ \E late \in 0..MaxOversleep : WaitWake(late)
    \/ WaitNoSleep
    \/ \E t \in CallTimes : LimiterPass(t)

(***************************************************************************)
(* FootballAPI._batch_request (src/api.py), one url, one caller.           *)
(***************************************************************************)
\* How many _batch_request calls one behaviour takes.
MaxBatchCalls == 2
\* The seconds of time.sleep before the retry.
RetryDelay == 60
\* The status recorded for a requests.get that raised.
Raised == 0

\* The parameter sets asked for, and the lists of them a call is given.
ParamSets == {"p1", "p2"}
ParamLists == {<<>>, <<"p1">>, <<"p1", "p2">>, <<"p2", "p1">>}
\* What the remote answers: 200 with a JSON body, 429, or another status.
HttpStatuses == {200, 429, 500}
\* The JSON bodies of a 200: a dict with rows, the empty dict, a dict with
\* a non-empty 'errors'.
RowsBody == "{'response': [..]}"
EmptyBody == "{}"
ErrorsBody == "{'errors': {..}, 'response': []}"
Bodies == {RowsBody, EmptyBody, ErrorsBody}
\* The seconds between the return of a call and the next call: none, or
\* the duration of the 'short' store less the retry's sleep, or all of it.
Gaps == {0, Duration["short"] - RetryDelay, Duration["short"]}

\* The empty list, as a fetch operation stores and returns it.
EmptyList == "[]"

\* bool(data)
Truthy(data) == data \notin {None, EmptyBody, EmptyList}

\* Lines 69 and 77 taking every answer but a 429 for a success.
Ok_NotRateLimited(status) == status \notin {429, Raised}

\* response.status_code == 200
Ok(status) == status = 200

\* d[key] = value
With(d, key, value) ==
    [k \in DOMAIN d \cup {key} |-> IF k = key THEN value ELSE d[k]]

\* What _batch_request did, in order: a cache lookup, a requests.get and
\* its answer, a time.sleep.
Lookup(params, t) ==
    [kind |-> "lookup", params |-> params, status |-> 0, data |-> None, at |-> t]
HttpGet(params, status, data, t) ==
    [kind |-> "GET", params |-> params, status |-> status, data |-> data, at |-> t]
Sleep(kind, t) ==
    [kind |-> kind, params |-> "", status |-> 0, data |-> None, at |-> t]

\* The locals of a call, the calls made so far, and the cache as the call
\* found it.
BatchCall(phase, params_list, k, results, n, cache0) ==
    [phase |-> phase, params_list |-> params_list, k |-> k,
     results |-> results, n |-> n, cache0 |-> cache0]
NoBatchCall == BatchCall("idle", <<>>, 0, EmptyDict, 0, InitialCache)

\* The parameter set the loop stands at, and what line 62 finds for it.
Params == batch_call.params_list[batch_call.k]
Cached == get_from_cache(cache, Params, "short", now)
InLoop == batch_call.phase = "loop" /\ batch_call.k <= Len(batch_call.params_list)

\* Lines 58-60, gap seconds after the call before returned.
BatchStart(params_list, gap) ==
    /\ batch_call.phase = "idle"
    /\ batch_call.n < MaxBatchCalls
    /\ now' = now + gap
    /\ batch_call' = BatchCall("loop", params_list, 1, EmptyDict,
                               batch_call.n + 1, cache)
    /\ http' = <<>>
    /\ UNCHANGED <<cache_vars, limiter_vars, caller_vars, pipeline_vars>>

\* Lines 61-66: a cached response that is truthy is used.
BatchCached ==
    /\ InLoop
    /\ Truthy(Cached.data)
    /\ cache' = Cached.cache
    /\ batch_call' = [batch_call EXCEPT !.k = @ + 1,
                        !.results = With(@, Params, Cached.data)]
    /\ http' = Append(http, Lookup(Params, now))
    /\ UNCHANGED <<now, cache_op, limiter_vars, caller_vars, pipeline_vars>>

\* Lines 61-63, 67-73 and 81: no cached response is used, requests.get
\* returns; a 200 is cached and recorded, a 429 leads to the retry.
BatchGet(status, data) ==
    /\ InLoop
    /\ ~Truthy(Cached.data)
    /\ cache' = IF Ok(status)
                THEN set_cache(Cached.cache, Params, data, "short", now)
                ELSE Cached.cache
    /\ batch_call' =
        IF Ok(status)
        THEN [batch_call EXCEPT !.k = @ + 1, !.results = With(@, Params, data)]
        ELSE IF status = 429
        THEN [batch_call EXCEPT !.phase = "retry"]
        ELSE [batch_call EXCEPT !.k = @ + 1]
    /\ http' = IF status = 429
               THEN http \o <<Lookup(Params, now),
                              HttpGet(Params, status, data, now)>>
               ELSE http \o <<Lookup(Params, now),
                              HttpGet(Params, status, data, now),
                              Sleep("sleep 0.2", now)>>
    /\ UNCHANGED <<now, cache_op, limiter_vars, caller_vars, pipeline_vars>>

\* Lines 61-63, 67-68 and 83-85: requests.get raises.
BatchGetRaises ==
    /\ InLoop
    /\ ~Truthy(Cached.data)
    /\ cache' = Cached.cache
    /\ batch_call' = [batch_call EXCEPT !.k = @ + 1]
    /\ http' = http \o <<Lookup(Params, now), HttpGet(Params, Raised, None, now)>>
    /\ UNCHANGED <<now, cache_op, limiter_vars, caller_vars, pipeline_vars>>

\* Lines 75-81: the sleep, the second requests.get and its answer.
BatchRetry(status, data) ==
    /\ batch_call.phase = "retry"
    /\ now' = now + RetryDelay
    /\ cache' = IF Ok(status)
                THEN set_cache(cache, Params, data, "short", now')
                ELSE cache
    /\ batch_call' =
        IF Ok(status)
        THEN [batch_call EXCEPT !.phase = "loop", !.k = @ + 1,
                                !.results = With(@, Params, data)]
        ELSE [batch_call EXCEPT !.phase = "loop", !.k = @ + 1]
    /\ http' = http \o <<Sleep("sleep 60", now),
                         HttpGet(Params, status, data, now'),
                         Sleep("sleep 0.2", now')>>
    /\ UNCHANGED <<cache_op, limiter_vars, caller_vars, pipeline_vars>>

\* Lines 75-76 and 83-85: the sleep, and the second requests.get raises.
BatchRetryRaises ==
    /\ batch_call.phase = "retry"
    /\ now' = now + RetryDelay
    /\ batch_call' = [batch_call EXCEPT !.phase = "loop", !.k = @ + 1]
    /\ http' = http \o <<Sleep("sleep 60", now),
                         HttpGet(Params, Raised, None, now')>>
    /\ UNCHANGED <<cache_vars, limiter_vars, caller_vars, pipeline_vars>>

\* Line 86.
BatchReturn ==
    /\ batch_call.phase = "loop"
    /\ batch_call.k > Len(batch_call.params_list)
    /\ batch_call' = [batch_call EXCEPT !.phase = "idle"]
    /\ UNCHANGED <<now, cache_vars, http, limiter_vars, caller_vars, pipeline_vars>>

\* The answers of the remote: a body with a 200 only.
Answers ==
    {<<200, data>> : data \in Bodies} \cup
    {<<status, None>> : status \in HttpStatuses \ {200}}

BatchNext ==
    \/ \E params_list \in ParamLists, gap \in Gaps : BatchStart(params_list, gap)
    \/ BatchCached
    \/ \E answer \in Answers : BatchGet(answer[1], answer[2])
    \/ BatchGetRaises
    \/ \E answer \in Answers : BatchRetry(answer[1], answer[2])
    \/ BatchRetryRaises
    \/ BatchReturn

(***************************************************************************)
(* FootballAPI.fetch_* (src/api.py): one caller, one operation and its     *)
(* arguments, called again and again.                                      *)
(***************************************************************************)
\* How many calls of the operation one behaviour takes.
MaxFetchCalls == 2

\* config.ALL_LEAGUES, and the other keys of config.LEAGUE_NAMES in the
\* order of the dict: the first three of them.
ALL_LEAGUES == "-1"
LEAGUE_NAMES == <<"39", "140", "78">>

\* json.dumps of the parameter set a fetch builds, with its endpoint.
StandingsParams(league_id) == "standings?league=" \o league_id \o "&season=2024"

\* A value as the cache and the caller hold it: the empty dict and the
\* empty list are the falsy values, any other value is written out.
TextOfDict(d) == IF DOMAIN d = {} THEN EmptyBody ELSE ToString(d)
TextOfList(l) == IF l = <<>> THEN EmptyList ELSE ToString(l)

\* What a fetch hands back: the value it returns, and whether it stored
\* the value under its cache key.
Result(value, stored) == [value |-> value, stored |-> stored]

\* Lines 297-309: the results of the batch merged by league.
all_standings(results) ==
    LET leagues == {LEAGUE_NAMES[i] : i \in DOMAIN LEAGUE_NAMES}
        got == {l \in leagues : StandingsParams(l) \in DOMAIN results}
    IN  [l \in got |-> results[StandingsParams(l)]]

\* Lines 297-319, from the results of the batch on.
fetch_standings(results, league_id) ==
    IF league_id = ALL_LEAGUES
    THEN Result(TextOfDict(all_standings(results)), TRUE)
    ELSE IF /\ StandingsParams(league_id) \in DOMAIN results
            /\ Truthy(results[StandingsParams(league_id)])
         THEN Result(results[StandingsParams(league_id)], TRUE)
         ELSE Result(None, FALSE)

\* The bodies the remote may answer an odds request with, as dicts: with
\* each of 'response', 'bookmakers', 'bets', 'values' absent, empty or
\* there, and 0 to 4 values, one of them without its 'odd'.
Odd(odd) == [value |-> "v", odd |-> odd]
ValueLists ==
    {<<>>,
     <<Odd("2.10")>>,
     <<Odd("2.10"), Odd("3.40")>>,
     <<Odd("2.10"), Odd("3.40"), Odd("3.60")>>,
     <<Odd("2.10"), [value |-> "Draw"], Odd("3.60")>>,
     <<Odd("2.10"), Odd("3.40"), Odd("3.60"), Odd("9.00")>>}
BetDicts ==
    {[name |-> "Match Winner"]} \cup
    {[name |-> "Match Winner", values |-> values] : values \in ValueLists}
BookmakerDicts ==
    {[name |-> "Bet365"]} \cup
    {[name |-> "Bet365", bets |-> bets] : bets \in {<<>>} \cup {<<b>> : b \in BetDicts}}
OddsDataDicts ==
    {[update |-> "today"]} \cup
    {[update |-> "today", bookmakers |-> bookmakers] :
        bookmakers \in {<<>>} \cup {<<b>> : b \in BookmakerDicts}}
OddsDicts ==
    {[get |-> "odds"]} \cup
    {[get |-> "odds", response |-> response] :
        response \in {<<>>} \cup {<<o>> : o \in OddsDataDicts}}
\* response.json() of an odds body, and the bodies as text.
OddsJson(data) == CHOOSE d \in OddsDicts : ToString(d) = data
OddsBodies == {EmptyBody} \cup {ToString(d) : d \in OddsDicts}

OddsParams(fixture_id) == "odds?bookmaker=8&fixture=" \o fixture_id

\* Line 462 asking for a fourth value.
Incomplete_FourValues(values) == values = <<>> \/ Len(values) < 4

\* Line 460: not bets.get('values') or len(bets['values']) < 3
Incomplete(values) == values = <<>> \/ Len(values) < 3

\* The odds returned for a failed fetch and for a body that lacks a level.
NoOdds == [home |-> "0", draw |-> "0", away |-> "0"]

\* Lines 441-468, for a body that is truthy.
odds(data) ==
    LET response_data == Get(data, "response", <<>>)
        bookmakers == Get(response_data[1], "bookmakers", <<>>)
        bets == Get(bookmakers[1], "bets", <<>>)
        values == Get(bets[1], "values", <<>>)
    IN  IF response_data = <<>> THEN Result(ToString(NoOdds), FALSE)
        ELSE IF bookmakers = <<>> THEN Result(ToString(NoOdds), FALSE)
        ELSE IF bets = <<>> THEN Result(ToString(NoOdds), FALSE)
        ELSE IF Incomplete(values) THEN Result(ToString(NoOdds), FALSE)
        ELSE Result(ToString([home |-> Get(values[1], "odd", "0"),
                              draw |-> Get(values[2], "odd", "0"),
                              away |-> Get(values[3], "odd", "0")]), TRUE)

\* Lines 438-474, from the results of the batch on.
fetch_match_odds(results, fixture_id) ==
    LET data == Get(results, OddsParams(fixture_id), None)
    IN  IF Truthy(data) THEN odds(OddsJson(data)) ELSE Result(ToString(NoOdds), FALSE)

\* The fixtures the remote may list as the next ones of a league: three
\* of two rounds, the one of the later round between the other two by date,
\* and an entry without 'league'.
NextFixture(id, date, round) ==
    [fixture |-> [id |-> id, date |-> date], league |-> [round |-> round]]
NextFixtures ==
    {NextFixture("f1", "2024-05-04", "Regular Season - 36"),
     NextFixture("f2", "2024-05-11", "Regular Season - 37"),
     NextFixture("f3", "2024-05-15", "Regular Season - 36")}
NoLeagueFixture == [fixture |-> [id |-> "f4", date |-> "2024-05-18"]]
\* The listings: the fixtures of a subset in any order, and two listings
\* with the entry without 'league'.
Listings ==
    {l \in UNION {[1..n -> NextFixtures] : n \in 0..Cardinality(NextFixtures)} :
        \A i, j \in DOMAIN l : i # j => l[i] # l[j]}
    \cup {<<NoLeagueFixture>>}
    \cup {<<f, NoLeagueFixture>> : f \in NextFixtures}
NextDicts ==
    {[get |-> "fixtures"]} \cup
    {[get |-> "fixtures", response |-> response] : response \in Listings}
\* response.json() of such a body, and the bodies as text.
NextJson(data) == CHOOSE d \in NextDicts : ToString(d) = data
NextBodies == {EmptyBody} \cup {ToString(d) : d \in NextDicts}

NextParams(league_id) == "fixtures?league=" \o league_id \o "&season=2024&next=10"

\* Lines 530-535 and 538: the fixtures grouped by round, the rounds in the
\* order of their first fixture in data; and the first group.
rounds(data) ==
    LET first == {i \in DOMAIN data :
                    \A j \in 1..i - 1 : data[j].league.round # data[i].league.round}
        at(k) == CHOOSE i \in first : Cardinality({j \in first : j < i}) = k - 1
    IN  [k \in 1..Cardinality(first) |->
            SelectSeq(data,
                      LAMBDA fix : fix.league.round = data[at(k)].league.round)]
next_round(data) == IF rounds(data) # <<>> THEN rounds(data)[1] ELSE <<>>

\* Lines 524-546, from the results of the batch on.
fetch_next_fixtures(results, league_id) ==
    LET body == Get(results, NextParams(league_id), EmptyBody)
        data == IF body = EmptyBody THEN <<>>
                ELSE Get(NextJson(body), "response", <<>>)
    IN  IF data = <<>> THEN Result(EmptyList, FALSE)
        ELSE IF \E i \in DOMAIN data : "league" \notin DOMAIN data[i]
        THEN Result(EmptyList, FALSE)
        ELSE Result(TextOfList(next_round(data)), TRUE)

\* One fixture of a fixtures response; one without 'date', one without the
\* home goals.
Match(date, short, home, away, home_goals, away_goals) ==
    [fixture |-> [date |-> date, status |-> [short |-> short]],
     teams |-> [home |-> [id |-> home, name |-> "H"],
                away |-> [id |-> away, name |-> "W"]],
     goals |-> [home |-> home_goals, away |-> away_goals]]
NoDateMatch ==
    [fixture |-> [status |-> [short |-> "FT"]],
     teams |-> [home |-> [id |-> 33, name |-> "H"], away |-> [id |-> 34, name |-> "W"]],
     goals |-> [home |-> 5, away |-> 0]]
NoGoalsMatch ==
    [fixture |-> [date |-> 9, status |-> [short |-> "FT"]],
     teams |-> [home |-> [id |-> 33, name |-> "H"], away |-> [id |-> 34, name |-> "W"]],
     goals |-> [away |-> 0]]
\* The fixture lists the remote may serve: four finished fixtures of the
\* two teams out of the order of their dates, with one not finished, one of
\* another team, one without 'date' and one without its goals; one finished
\* fixture; none.
MatchLists ==
    {<<Match(2, "FT", 33, 34, 1, 1), NoDateMatch, Match(4, "FT", 34, 33, 0, 2),
       Match(5, "NS", 33, 34, 0, 0), NoGoalsMatch, Match(1, "FT", 33, 34, 0, 3),
       Match(3, "FT", 35, 34, 0, 1), Match(3, "FT", 33, 34, 2, 0)>>,
     <<Match(1, "FT", 34, 33, 2, 1)>>,
     <<>>}
MatchDicts == {[response |-> matches] : matches \in MatchLists}
MatchJson(data) == CHOOSE d \in MatchDicts : ToString(d) = data
MatchBodies == {EmptyBody} \cup {ToString(d) : d \in MatchDicts}
\* The bodies the remote may answer a fixtures request with: those of
\* Bodies, a dict whose 'response' is the empty list and those of
\* MatchBodies; and the 'response' of each.
NoRowsBody == "{'response': []}"
FixturesBodies == Bodies \cup {NoRowsBody}
Response(data) ==
    IF data = RowsBody THEN <<"..">>
    ELSE IF data \in MatchBodies \ {EmptyBody} THEN MatchJson(data).response
    ELSE <<>>
\* The list fetch_fixtures returned, from its text.
MatchesOf(text) ==
    IF text = EmptyList THEN <<>>
    ELSE CHOOSE matches \in MatchLists : ToString(matches) = text

FixturesParams(league_id) == "fixtures?league=" \o league_id \o "&season=2024"

\* The arguments of a call as one string: league_id alone, league_id and
\* team_id, or league_id and fixture_id; and each argument of the three.
LeagueTeam == "39_33"
LeagueFixture == "39_None_1001"
league_id_of(arg) == IF arg \in {LeagueTeam, LeagueFixture} THEN "39" ELSE arg
team_id_of(arg) == IF arg = LeagueTeam THEN "33" ELSE None
fixture_id_of(arg) == IF arg = LeagueFixture THEN "1001" ELSE None

\* params of lines 334, 341-345 and 356-360.
FixtureParams(fixture_id) == "fixtures?id=" \o fixture_id
TeamFixturesParams(league_id, team_id) ==
    FixturesParams(league_id) \o "&team=" \o team_id

\* Lines 340-353: the 'response' lists of the results, one after the other
\* in the order of params_list.
RECURSIVE all_fixtures(_, _)
all_fixtures(results, i) ==
    IF i > Len(LEAGUE_NAMES) THEN <<>>
    ELSE Response(Get(results, FixturesParams(LEAGUE_NAMES[i]), EmptyBody))
            \o all_fixtures(results, i + 1)

\* Lines 333-364, from the results of the batch on.
fetch_fixtures(results, arg) ==
    IF fixture_id_of(arg) # None
    THEN Result(TextOfList(Response(Get(results, FixtureParams(fixture_id_of(arg)),
                                        EmptyBody))), TRUE)
    ELSE IF arg = ALL_LEAGUES
    THEN Result(TextOfList(all_fixtures(results, 1)), TRUE)
    ELSE IF team_id_of(arg) # None
    THEN Result(TextOfList(Response(Get(results,
                                        TeamFixturesParams(league_id_of(arg),
                                                           team_id_of(arg)),
                                        EmptyBody))), TRUE)
    ELSE Result(TextOfList(Response(Get(results, FixturesParams(arg), EmptyBody))),
                TRUE)

\* The bodies the remote may answer a team statistics request with, as
\* dicts: 'response' with 'form', with 'goals', or with both; and the body
\* whose 'response' is the empty dict.
StatsResponses ==
    {[form |-> "WWD"], [goals |-> [for |-> 3]],
     [form |-> "WWD", goals |-> [for |-> 3]]}
StatsDicts == {[get |-> "teams/statistics", response |-> r] : r \in StatsResponses}
NoStatsBody == "{'response': {}}"
\* response.json() of such a body, and the bodies as text.
StatsJson(data) == CHOOSE d \in StatsDicts : ToString(d) = data
StatsBodies == Bodies \cup {NoStatsBody} \cup {ToString(d) : d \in StatsDicts}

TeamStatsParams(arg) ==
    "teams/statistics?league=" \o league_id_of(arg) \o "&season=2024&team="
        \o team_id_of(arg)

\* Lines 390-400: every field of the statistics, with its default.
stats(data) ==
    [form |-> Get(data, "form", ""),
     fixtures |-> Get(data, "fixtures", EmptyDict),
     goals |-> Get(data, "goals", EmptyDict),
     biggest |-> Get(data, "biggest", EmptyDict),
     clean_sheet |-> Get(data, "clean_sheet", EmptyDict),
     failed_to_score |-> Get(data, "failed_to_score", EmptyDict),
     penalty |-> Get(data, "penalty", EmptyDict),
     lineups |-> Get(data, "lineups", <<>>),
     cards |-> Get(data, "cards", EmptyDict)]

\* Lines 381-407, from the results of the batch on: no 'response' or an
\* empty one returns {}; a 'response' that is a list raises at line 391 and
\* returns {}; none of the two is stored.
fetch_team_statistics(results, arg) ==
    LET body == Get(results, TeamStatsParams(arg), EmptyBody)
    IN  IF body \in {EmptyBody, NoStatsBody, ErrorsBody} THEN Result(EmptyBody, FALSE)
        ELSE IF body = RowsBody THEN Result(EmptyBody, FALSE)
        ELSE Result(ToString(stats(StatsJson(body).response)), TRUE)

SquadParams(arg) == "players/squads?team=" \o team_id_of(arg)

\* Lines 419-423, from the results of the batch on: [] without a squad,
\* and with one the function ends without a return statement.
fetch_player_statistics(results, arg) ==
    LET squad_data == Get(results, SquadParams(arg), None)
    IN  IF ~Truthy(squad_data) \/ Response(squad_data) = <<>>
        THEN Result(EmptyList, FALSE)
        ELSE Result(None, FALSE)

\* The operations, each with the argument a behaviour calls it with.
FetchOps ==
    {<<"fetch_standings", ALL_LEAGUES>>, <<"fetch_standings", "39">>,
     <<"fetch_fixtures", "39">>, <<"fetch_fixtures", LeagueTeam>>,
     <<"fetch_fixtures", LeagueFixture>>,
     <<"fetch_team_statistics", LeagueTeam>>,
     <<"fetch_player_statistics", LeagueTeam>>,
     <<"fetch_match_odds", "1001">>, <<"fetch_next_fixtures", "39">>}

\* cache_key and the store the operation caches in.
CacheKeyOf(op, arg) ==
    CASE op = "fetch_standings" -> "standings_" \o arg
      [] op = "fetch_fixtures" ->
            "fixtures_" \o league_id_of(arg) \o "_" \o team_id_of(arg) \o "_"
                \o fixture_id_of(arg)
      [] op = "fetch_team_statistics" -> "team_stats_" \o arg
      [] op = "fetch_player_statistics" -> "player_stats_" \o arg
      [] op = "fetch_match_odds" -> "odds_" \o arg
      [] op = "fetch_next_fixtures" -> "next_fixtures_" \o arg \o "_2024"
CacheTypeOf(op, arg) ==
    CASE op = "fetch_standings" -> "medium"
      [] op = "fetch_fixtures" -> IF fixture_id_of(arg) = None THEN "long" ELSE "short"
      [] op = "fetch_team_statistics" -> "medium"
      [] op = "fetch_player_statistics" -> "medium"
      [] op = "fetch_match_odds" -> "short"
      [] op = "fetch_next_fixtures" -> "short"
\* The params_list handed to _batch_request.
ParamsListOf(op, arg) ==
    CASE op = "fetch_standings" ->
            IF arg = ALL_LEAGUES
            THEN [i \in DOMAIN LEAGUE_NAMES |-> StandingsParams(LEAGUE_NAMES[i])]
            ELSE <<StandingsParams(arg)>>
      [] op = "fetch_fixtures" ->
            IF fixture_id_of(arg) # None
            THEN <<FixtureParams(fixture_id_of(arg))>>
            ELSE IF arg = ALL_LEAGUES
            THEN [i \in DOMAIN LEAGUE_NAMES |-> FixturesParams(LEAGUE_NAMES[i])]
            ELSE IF team_id_of(arg) # None
            THEN <<TeamFixturesParams(league_id_of(arg), team_id_of(arg))>>
            ELSE <<FixturesParams(arg)>>
      [] op = "fetch_team_statistics" -> <<TeamStatsParams(arg)>>
      [] op = "fetch_player_statistics" -> <<SquadParams(arg)>>
      [] op = "fetch_match_odds" -> <<OddsParams(arg)>>
      [] op = "fetch_next_fixtures" -> <<NextParams(arg)>>
\* What the operation makes of the results of the batch.
ResultOf(op, arg, results) ==
    CASE op = "fetch_standings" -> fetch_standings(results, arg)
      [] op = "fetch_fixtures" -> fetch_fixtures(results, arg)
      [] op = "fetch_team_statistics" -> fetch_team_statistics(results, arg)
      [] op = "fetch_player_statistics" -> fetch_player_statistics(results, arg)
      [] op = "fetch_match_odds" -> fetch_match_odds(results, arg)
      [] op = "fetch_next_fixtures" -> fetch_next_fixtures(results, arg)

\* The locals of a call, the calls made so far, what the last call
\* returned and what the call before it returned; whether the last call
\* that went through _batch_request had every request answered, and when it
\* returned; whether the last call began after such a call, less than the
\* duration of its store later; the season of a
\* fetch_fixtures call; in fetch_all_teams, league_names, the position in
\* the loop over the leagues, standings, standings_data and all_teams.
FetchCall(op, arg, phase, n, returned, previous) ==
    [op |-> op, arg |-> arg, phase |-> phase, n |-> n,
     returned |-> returned, previous |-> previous,
     ok |-> FALSE, at |-> 0, repeat |-> FALSE, season |-> Season,
     names |-> [all |-> FALSE, ids |-> <<>>], k |-> 0, standings |-> EmptyDict,
     standings_data |-> <<>>, all_teams |-> <<>>]
NoFetchCall == FetchCall("", "", "idle", 0, None, None)

\* The seconds between the return of a call and the next call: none, or
\* the duration of a store.
FetchGaps == {0} \cup {Duration[T] : T \in CacheTypes}

\* The call that starts at t is a repeat.
Repeat(t) ==
    /\ fetch_call.ok
    /\ t - fetch_call.at < Duration[CacheTypeOf(fetch_call.op, fetch_call.arg)]
\* Every parameter set of the batch was answered, none with errors.
Answered ==
    \A i \in DOMAIN batch_call.params_list :
        /\ batch_call.params_list[i] \in DOMAIN batch_call.results
        /\ batch_call.results[batch_call.params_list[i]] # ErrorsBody

\* What the call finds under its cache key when it starts at t.
Found(t) ==
    get_from_cache(cache, CacheKeyOf(fetch_call.op, fetch_call.arg),
                   CacheTypeOf(fetch_call.op, fetch_call.arg), t)

\* The call starts gap seconds after the one before returned and finds a
\* cached value that is truthy: it returns it.
FetchCached(gap) ==
    /\ fetch_call.phase = "idle"
    /\ fetch_call.n < MaxFetchCalls
    /\ now' = now + gap
    /\ Truthy(Found(now').data)
    /\ cache' = Found(now').cache
    /\ fetch_call' = [fetch_call EXCEPT !.n = @ + 1,
                        !.returned = Found(now').data, !.previous = fetch_call.returned,
                        !.repeat = Repeat(now')]
    /\ http' = <<>>
    /\ UNCHANGED <<cache_op, batch_call, cache_thread, limiter_thread,
                   limiter_vars, pipeline_vars>>

\* The call starts and finds no cached value it uses: it calls
\* _batch_request.
FetchMiss(gap) ==
    /\ fetch_call.phase = "idle"
    /\ fetch_call.n < MaxFetchCalls
    /\ now' = now + gap
    /\ ~Truthy(Found(now').data)
    /\ cache' = Found(now').cache
    /\ fetch_call' = [fetch_call EXCEPT !.phase = "batch", !.n = @ + 1,
                                        !.previous = fetch_call.returned,
                                        !.repeat = Repeat(now')]
    /\ batch_call' = BatchCall("loop", ParamsListOf(fetch_call.op, fetch_call.arg),
                               1, EmptyDict, batch_call.n + 1, cache')
    /\ http' = <<>>
    /\ UNCHANGED <<cache_op, cache_thread, limiter_thread,
                   limiter_vars, pipeline_vars>>

\* _batch_request has returned: the call makes its value of the results,
\* stores it if it does, and returns it.
FetchReturn ==
    /\ fetch_call.phase = "batch"
    /\ batch_call.phase = "idle"
    /\ LET result == ResultOf(fetch_call.op, fetch_call.arg, batch_call.results)
       IN  /\ cache' = IF result.stored
                       THEN set_cache(cache, CacheKeyOf(fetch_call.op, fetch_call.arg),
                                      result.value,
                                      CacheTypeOf(fetch_call.op, fetch_call.arg), now)
                       ELSE cache
           /\ fetch_call' = [fetch_call EXCEPT !.phase = "idle",
                                               !.returned = result.value,
                                               !.ok = Answered, !.at = now]
    /\ UNCHANGED <<now, cache_op, batch_vars, cache_thread, limiter_thread,
                   limiter_vars, pipeline_vars>>

\* The bodies the remote may answer a request of the operation with.
BodiesOf(op) ==
    CASE op = "fetch_standings" -> Bodies
      [] op = "fetch_fixtures" -> FixturesBodies
      [] op = "fetch_team_statistics" -> StatsBodies
      [] op = "fetch_player_statistics" -> Bodies
      [] op = "fetch_match_odds" -> OddsBodies
      [] op = "fetch_next_fixtures" -> NextBodies
\* The answers of a remote that does not rate limit.
FetchAnswers ==
    {<<200, data>> : data \in BodiesOf(fetch_call.op)} \cup
    {<<status, None>> : status \in HttpStatuses \ {200, 429}}

FetchNext ==
    \/ \E gap \in FetchGaps : FetchCached(gap)
    \/ \E gap \in FetchGaps : FetchMiss(gap)
    \/ BatchCached
    \/ \E answer \in FetchAnswers : BatchGet(answer[1], answer[2])
    \/ BatchGetRaises
    \/ BatchReturn
    \/ FetchReturn

(***************************************************************************)
(* FootballAPI.fetch_fixtures (src/api.py) called with one league and any  *)
(* season, team_id and fixture_id None.                                    *)
(***************************************************************************)
\* The seasons a call asks for.
Seasons == {"2024", "2023"}

\* params of lines 355-359, and the season a parameter set asks for.
SeasonParams(league_id, season) == "fixtures?league=" \o league_id \o "&season=" \o season
SeasonOf(params) == CHOOSE season \in Seasons : params = SeasonParams("39", season)

\* The body the remote answers a request for a season with when it lists a
\* fixture of that season, and the 'response' of a body.
SeasonBody(season) == "{'response': [fixture of " \o season \o "]}"
SeasonResponse(data) ==
    IF \E season \in Seasons : data = SeasonBody(season)
    THEN <<"fixture of " \o (CHOOSE season \in Seasons : data = SeasonBody(season))>>
    ELSE <<>>

\* Lines 355-364, from the results of the batch on.
fetch_fixtures_season(results, league_id, season) ==
    Result(TextOfList(SeasonResponse(Get(results, SeasonParams(league_id, season),
                                         EmptyBody))), TRUE)

\* Lines 323-330: what the call finds under cache_key, which has the league,
\* team_id and fixture_id in it.
FoundFixtures(t) == get_from_cache(cache, CacheKeyOf("fetch_fixtures", fetch_call.arg), "long", t)

\* Lines 323-330: the call for a season starts gap seconds after the one
\* before returned and finds a cached value that is truthy: it returns it.
FixturesCached(season, gap) ==
    /\ fetch_call.phase = "idle"
    /\ fetch_call.n < MaxFetchCalls
    /\ now' = now + gap
    /\ Truthy(FoundFixtures(now').data)
    /\ cache' = FoundFixtures(now').cache
    /\ fetch_call' = [fetch_call EXCEPT !.n = @ + 1, !.season = season,
                        !.returned = FoundFixtures(now').data,
                        !.previous = fetch_call.returned]
    /\ http' = <<>>
    /\ UNCHANGED <<cache_op, batch_call, cache_thread, limiter_thread,
                   limiter_vars, pipeline_vars>>

\* Lines 323-360: the call finds no cached value it uses and calls
\* _batch_request with the parameters of its season.
FixturesMiss(season, gap) ==
    /\ fetch_call.phase = "idle"
    /\ fetch_call.n < MaxFetchCalls
    /\ now' = now + gap
    /\ ~Truthy(FoundFixtures(now').data)
    /\ cache' = FoundFixtures(now').cache
    /\ fetch_call' = [fetch_call EXCEPT !.phase = "batch", !.n = @ + 1,
                                        !.season = season,
                                        !.previous = fetch_call.returned]
    /\ batch_call' = BatchCall("loop", <<SeasonParams(fetch_call.arg, season)>>,
                               1, EmptyDict, batch_call.n + 1, cache')
    /\ http' = <<>>
    /\ UNCHANGED <<cache_op, cache_thread, limiter_thread,
                   limiter_vars, pipeline_vars>>

\* Lines 361-364: _batch_request has returned; the 'response' is stored
\* under cache_key and returned.
FixturesReturn ==
    /\ fetch_call.phase = "batch"
    /\ batch_call.phase = "idle"
    /\ LET result == fetch_fixtures_season(batch_call.results, fetch_call.arg,
                                           fetch_call.season)
       IN  /\ cache' = set_cache(cache, CacheKeyOf("fetch_fixtures", fetch_call.arg),
                                 result.value, "long", now)
           /\ fetch_call' = [fetch_call EXCEPT !.phase = "idle",
                                               !.returned = result.value,
                                               !.ok = Answered, !.at = now]
    /\ UNCHANGED <<now, cache_op, batch_vars, cache_thread, limiter_thread,
                   limiter_vars, pipeline_vars>>

\* The answers of the remote to the request the batch stands at: the
\* fixture of the season asked for, no fixture, or no body.
SeasonAnswers ==
    IF InLoop \/ batch_call.phase = "retry"
    THEN {<<200, SeasonBody(SeasonOf(Params))>>, <<200, NoRowsBody>>}
            \cup {<<status, None>> : status \in HttpStatuses \ {200}}
    ELSE {}

SeasonsNext ==
    \/ \E season \in Seasons, gap \in FetchGaps : FixturesCached(season, gap)
    \/ \E season \in Seasons, gap \in FetchGaps : FixturesMiss(season, gap)
    \/ BatchCached
    \/ \E answer \in SeasonAnswers : BatchGet(answer[1], answer[2])
    \/ BatchGetRaises
    \/ \E answer \in SeasonAnswers : BatchRetry(answer[1], answer[2])
    \/ BatchRetryRaises
    \/ BatchReturn
    \/ FixturesReturn

(***************************************************************************)
(* FootballAPI.fetch_all_teams (src/api.py) with                           *)
(* FormAnalyzer.analyze_team_form (src/functions/form_analyzer.py): one    *)
(* caller; the standings and the fixtures of each league are fetched by    *)
(* fetch_standings and fetch_fixtures.  Dates are day numbers, in the      *)
(* order of the ISO strings; quotients are in hundredths.                  *)
(***************************************************************************)
\* config.PERF_DIFF_THRESHOLD, in hundredths, and the default of
\* matches_count.
PERF_DIFF_THRESHOLD == 60
matches_count == 3

\* One row of a standings table, and a row whose 'team' has no 'id'.
TeamRow(id, name, played, points, rank) ==
    [team |-> [id |-> id, name |-> name], all |-> [played |-> played],
     points |-> points, rank |-> rank]
NoIdRow == [team |-> [name |-> "C"], all |-> [played |-> 3], points |-> 4, rank |-> 3]
\* The tables the remote may serve: two teams far from their form, a team
\* near its form after one without 'id' and one that has not played, none.
Tables ==
    {<<TeamRow(33, "A", 3, 3, 2), TeamRow(34, "B", 3, 9, 1)>>,
     <<NoIdRow, TeamRow(34, "B", 0, 0, 2), TeamRow(33, "A", 2, 5, 1)>>,
     <<>>}
\* The bodies of a standings request, as dicts: with a table, with a
\* 'league' that has no 'standings'; response.json() of one, and the bodies
\* as text.
TableDicts ==
    {[response |-> <<[league |-> [standings |-> <<table>>]]>>] : table \in Tables}
NoTableDict == [response |-> <<[league |-> [id |-> 39]]>>]
TableJson(data) == CHOOSE d \in TableDicts \cup {NoTableDict} : ToString(d) = data
TableBodies ==
    {EmptyBody, ErrorsBody} \cup {ToString(d) : d \in TableDicts \cup {NoTableDict}}

\* form_analyzer lines 27-41: the fixtures that have a date.
valid_fixtures(fixtures) ==
    SelectSeq(fixtures, LAMBDA fixture : "date" \in DOMAIN fixture.fixture)

\* form_analyzer lines 44-48: sorted(..., reverse=True), fixtures of one
\* date staying in their order.
RECURSIVE sorted_fixtures(_)
sorted_fixtures(fixtures) ==
    IF fixtures = <<>> THEN <<>>
    ELSE LET first == CHOOSE i \in DOMAIN fixtures :
                        /\ \A j \in DOMAIN fixtures :
                              fixtures[j].fixture.date <= fixtures[i].fixture.date
                        /\ \A j \in 1..i - 1 :
                              fixtures[j].fixture.date < fixtures[i].fixture.date
         IN  <<fixtures[first]>> \o
             sorted_fixtures(SubSeq(fixtures, 1, first - 1) \o
                             SubSeq(fixtures, first + 1, Len(fixtures)))

\* form_analyzer lines 58-91: the match is finished, team_id played in it
\* and both goals are there.
Counts(match, team_id) ==
    /\ match.fixture.status.short = "FT"
    /\ team_id \in {match.teams.home.id, match.teams.away.id}
    /\ {"home", "away"} \subseteq DOMAIN match.goals

\* form_analyzer lines 103-131: the letter of a match for team_id, and the
\* goals of the team and of its opponent.
team_goals(match, team_id) ==
    IF match.teams.home.id = team_id THEN match.goals.home ELSE match.goals.away
opponent_goals(match, team_id) ==
    IF match.teams.home.id = team_id THEN match.goals.away ELSE match.goals.home
Letter(match, team_id) ==
    IF team_goals(match, team_id) > opponent_goals(match, team_id) THEN "W"
    ELSE IF team_goals(match, team_id) < opponent_goals(match, team_id) THEN "L"
    ELSE "D"

\* form_analyzer lines 163-172.
default_form(count) ==
    [form |-> [i \in 1..count |-> "U"], points |-> 0, matches_analyzed |-> 0,
     goals_for |-> 0, goals_against |-> 0]

\* form_analyzer lines 145-147: the form padded with 'U' up to count letters.
padded(result, count) ==
    [result EXCEPT !.form = @ \o [i \in 1..count - Len(@) |-> "U"]]

\* form_analyzer lines 103-135: the match counted into the result.
counted(result, match, team_id) ==
    [form |-> Append(result.form, Letter(match, team_id)),
     points |-> result.points + (CASE Letter(match, team_id) = "W" -> 3
                                   [] Letter(match, team_id) = "D" -> 1
                                   [] OTHER -> 0),
     matches_analyzed |-> result.matches_analyzed + 1,
     goals_for |-> result.goals_for + team_goals(match, team_id),
     goals_against |-> result.goals_against + opponent_goals(match, team_id)]

\* form_analyzer lines 50-147: the matches taken one after the other; the
\* loop is left (line 137) once a match was counted and count of them are
\* analyzed, and the form is padded.
RECURSIVE analyze(_, _, _, _)
analyze(matches, team_id, count, result) ==
    IF matches = <<>>
    THEN padded(result, count)
    ELSE IF ~Counts(Head(matches), team_id)
    THEN analyze(Tail(matches), team_id, count, result)
    ELSE IF counted(result, Head(matches), team_id).matches_analyzed >= count
    THEN padded(counted(result, Head(matches), team_id), count)
    ELSE analyze(Tail(matches), team_id, count,
                 counted(result, Head(matches), team_id))

\* form_analyzer lines 8-161: no fixtures (line 15) or no team_id (line 18)
\* gives the default form.
analyze_team_form(fixtures, team_id, count) ==
    IF fixtures = <<>> \/ team_id = 0
    THEN default_form(count)
    ELSE analyze(sorted_fixtures(valid_fixtures(fixtures)), team_id, count,
                 [default_form(count) EXCEPT !.form = <<>>])

\* round(100 * num / den), den positive: no quotient of the model is
\* half-way between two hundredths.
Hundredths(num, den) == (200 * num + den) \div (2 * den)
Abs(x) == IF x < 0 THEN 0 - x ELSE x

\* ' '.join(form)
RECURSIVE Joined(_)
Joined(form) ==
    IF form = <<>> THEN ""
    ELSE IF Len(form) = 1 THEN form[1]
    ELSE form[1] \o " " \o Joined(Tail(form))

\* The league names a call is given: the flag and name of a league.
league_info(league_id) == "flag" \o league_id \o " League " \o league_id

\* Lines 161-203 and 229-271: the entry of one row of the table, or none
\* when the row has no team id, no match played, or a form within the
\* threshold of its points per game.
team_info(team, league_id, fixtures) ==
    LET team_id == Get(team.team, "id", 0)
        matches_played == team.all.played
        form_data == analyze_team_form(fixtures, team_id, matches_count)
        form_ppg == IF form_data.matches_analyzed > 0
                    THEN Hundredths(form_data.points, matches_count) ELSE 0
        performance_diff ==
            IF form_data.matches_analyzed > 0
            THEN Hundredths(form_data.points * matches_played
                                - team.points * matches_count,
                            matches_count * matches_played)
            ELSE Hundredths(0 - team.points, matches_played)
    IN  IF team_id = 0 \/ matches_played = 0 THEN <<>>
        ELSE IF Abs(performance_diff) <= PERF_DIFF_THRESHOLD THEN <<>>
        ELSE <<[team_id |-> team_id, team |-> team.team.name,
                league |-> league_info(league_id),
                current_position |-> team.rank,
                matches_played |-> matches_played,
                current_points |-> team.points,
                current_ppg |-> Hundredths(team.points, matches_played),
                form |-> Joined(form_data.form),
                form_points |-> form_data.points,
                form_ppg |-> form_ppg,
                performance_diff |-> performance_diff,
                goals_for |-> form_data.goals_for,
                goals_against |-> form_data.goals_against]>>

\* Lines 160-207 and 228-275: the entries of the rows of a table.
RECURSIVE league_teams(_, _, _)
league_teams(standings_data, league_id, fixtures) ==
    IF standings_data = <<>> THEN <<>>
    ELSE team_info(Head(standings_data), league_id, fixtures)
            \o league_teams(Tail(standings_data), league_id, fixtures)

\* Line 286: sorted by abs(performance_diff), reverse=True, entries of one
\* difference staying in their order.
RECURSIVE sorted_teams(_)
sorted_teams(all_teams) ==
    IF all_teams = <<>> THEN <<>>
    ELSE LET first == CHOOSE i \in DOMAIN all_teams :
                        /\ \A j \in DOMAIN all_teams :
                              Abs(all_teams[j].performance_diff)
                                <= Abs(all_teams[i].performance_diff)
                        /\ \A j \in 1..i - 1 :
                              Abs(all_teams[j].performance_diff)
                                < Abs(all_teams[i].performance_diff)
         IN  <<all_teams[first]>> \o
             sorted_teams(SubSeq(all_teams, 1, first - 1) \o
                          SubSeq(all_teams, first + 1, Len(all_teams)))

\* league_names as a call gives it: whether ALL_LEAGUES is among its keys,
\* and its other keys in their order.
LeagueNames(all, ids) == [all |-> all, ids |-> ids]
LeagueNamesGiven ==
    {LeagueNames(FALSE, <<"39", "140">>), LeagueNames(TRUE, <<"39">>)}

\* Line 138 read back: the dict fetch_standings(ALL_LEAGUES) returned, from
\* its text, and its keys in their order.
StandingsTexts ==
    [d \in UNION {[S -> TableBodies] :
                    S \in SUBSET {LEAGUE_NAMES[i] : i \in DOMAIN LEAGUE_NAMES}} |->
        TextOfDict(d)]
StandingsJson(text) == CHOOSE d \in DOMAIN StandingsTexts : StandingsTexts[d] = text
StandingsItems(standings) ==
    SelectSeq(LEAGUE_NAMES, LAMBDA l : l \in DOMAIN standings)

\* The leagues the loop of line 145 or 215 goes through.
LeaguesOf(call) ==
    IF call.names.all THEN StandingsItems(call.standings) ELSE call.names.ids

\* Lines 153-154: standings_data of the standings of one league, or None
\* when line 153 raises IndexError.
standings_data_all(league_standings) ==
    IF league_standings = ErrorsBody THEN None
    ELSE IF league_standings \in {EmptyBody, ToString(NoTableDict)} THEN <<>>
    ELSE TableJson(league_standings).response[1].league.standings[1]

\* Lines 221-225: standings_data of what fetch_standings returned, or None
\* when there is no 'response' or line 225 raises KeyError.
standings_data_one(standings) ==
    IF standings \in {None, EmptyBody, ErrorsBody, ToString(NoTableDict)} THEN None
    ELSE TableJson(standings).response[1].league.standings[1]

\* Lines 145-154: the first league from position k on that has its
\* information and its standings data; past the last one when none has.
RECURSIVE NextLeague(_, _)
NextLeague(call, k) ==
    IF k > Len(LeaguesOf(call)) THEN k
    ELSE IF /\ \E i \in DOMAIN call.names.ids : call.names.ids[i] = LeaguesOf(call)[k]
            /\ standings_data_all(call.standings[LeaguesOf(call)[k]]) # None
    THEN k
    ELSE NextLeague(call, k + 1)

\* The loop stands at league k: at the call of fetch_fixtures of that
\* league (line 157) when there is one, past the loop when there is none.
AtLeague(call, k) ==
    IF k > Len(LeaguesOf(call))
    THEN [call EXCEPT !.phase = "return", !.k = k]
    ELSE [call EXCEPT !.phase = "fixtures", !.k = k,
            !.standings_data = standings_data_all(call.standings[LeaguesOf(call)[k]])]

\* The loop of line 215 goes to league k: to its call of fetch_standings
\* (line 220), or past the loop.
ToLeague(call, k) ==
    IF k > Len(call.names.ids)
    THEN [call EXCEPT !.phase = "return", !.k = k]
    ELSE [call EXCEPT !.phase = "standings", !.k = k]

\* fetch_standings has returned: lines 138-157 and 220-226.
AfterStandings(call, standings) ==
    IF call.names.all
    THEN LET held == [call EXCEPT !.standings = StandingsJson(standings)]
         IN  IF ~Truthy(standings) THEN [held EXCEPT !.phase = "return"]
             ELSE AtLeague(held, NextLeague(held, 1))
    ELSE IF standings_data_one(standings) = None THEN ToLeague(call, call.k + 1)
         ELSE [call EXCEPT !.phase = "fixtures",
                           !.standings_data = standings_data_one(standings)]

\* fetch_fixtures has returned: lines 157-207 and 226-275.
AfterFixtures(call, fixtures) ==
    LET added == [call EXCEPT !.all_teams =
                    @ \o league_teams(call.standings_data, LeaguesOf(call)[call.k],
                                      MatchesOf(fixtures))]
    IN  IF call.names.all THEN AtLeague(added, NextLeague(added, call.k + 1))
        ELSE ToLeague(added, call.k + 1)

\* The operation fetch_all_teams stands in, and its argument.
InnerOp == IF fetch_call.phase \in {"standings", "standings batch"}
           THEN "fetch_standings" ELSE "fetch_fixtures"
InnerArg == IF InnerOp = "fetch_standings" /\ fetch_call.names.all THEN ALL_LEAGUES
            ELSE LeaguesOf(fetch_call)[fetch_call.k]
After(call, value) ==
    IF call.phase \in {"standings", "standings batch"}
    THEN AfterStandings([call EXCEPT !.phase = "standings"], value)
    ELSE AfterFixtures([call EXCEPT !.phase = "fixtures"], value)

\* What the operation finds under its cache key.
InnerFound == get_from_cache(cache, CacheKeyOf(InnerOp, InnerArg),
                             CacheTypeOf(InnerOp, InnerArg), now)

\* Lines 132-138 and 213-220: the call, gap seconds after the one before
\* returned.
AllTeamsCall(league_names, gap) ==
    /\ fetch_call.phase = "idle"
    /\ fetch_call.n < MaxFetchCalls
    /\ now' = now + gap
    /\ fetch_call' =
        LET call == [fetch_call EXCEPT !.n = @ + 1, !.names = league_names,
                        !.previous = fetch_call.returned, !.standings = EmptyDict,
                        !.standings_data = <<>>, !.all_teams = <<>>]
        IN  IF league_names.all THEN [call EXCEPT !.phase = "standings", !.k = 0]
            ELSE ToLeague(call, 1)
    /\ http' = <<>>
    /\ UNCHANGED <<cache_vars, batch_call, cache_thread, limiter_thread,
                   limiter_vars, pipeline_vars>>

\* fetch_standings or fetch_fixtures finds a cached value that is truthy
\* and returns it.
TeamsCached ==
    /\ fetch_call.phase \in {"standings", "fixtures"}
    /\ Truthy(InnerFound.data)
    /\ cache' = InnerFound.cache
    /\ fetch_call' = After(fetch_call, InnerFound.data)
    /\ UNCHANGED <<now, cache_op, batch_vars, cache_thread, limiter_thread,
                   limiter_vars, pipeline_vars>>

\* fetch_standings or fetch_fixtures finds no cached value it uses and
\* calls _batch_request.
TeamsMiss ==
    /\ fetch_call.phase \in {"standings", "fixtures"}
    /\ ~Truthy(InnerFound.data)
    /\ cache' = InnerFound.cache
    /\ fetch_call' = [fetch_call EXCEPT !.phase = @ \o " batch"]
    /\ batch_call' = BatchCall("loop", ParamsListOf(InnerOp, InnerArg),
                               1, EmptyDict, batch_call.n + 1, cache')
    /\ UNCHANGED <<now, cache_op, http, cache_thread, limiter_thread,
                   limiter_vars, pipeline_vars>>

\* _batch_request has returned: fetch_standings or fetch_fixtures makes its
\* value of the results, stores it if it does, and returns it.
TeamsFetched ==
    /\ fetch_call.phase \in {"standings batch", "fixtures batch"}
    /\ batch_call.phase = "idle"
    /\ LET result == ResultOf(InnerOp, InnerArg, batch_call.results)
       IN  /\ cache' = IF result.stored
                       THEN set_cache(cache, CacheKeyOf(InnerOp, InnerArg),
                                      result.value, CacheTypeOf(InnerOp, InnerArg), now)
                       ELSE cache
           /\ fetch_call' = After(fetch_call, result.value)
    /\ UNCHANGED <<now, cache_op, batch_vars, cache_thread, limiter_thread,
                   limiter_vars, pipeline_vars>>

\* Lines 140-142 and 286: the list returned.
AllTeamsReturn ==
    /\ fetch_call.phase = "return"
    /\ fetch_call' = [fetch_call EXCEPT !.phase = "idle", !.at = now,
                        !.returned = TextOfList(sorted_teams(fetch_call.all_teams))]
    /\ UNCHANGED <<now, cache_vars, batch_vars, cache_thread, limiter_thread,
                   limiter_vars, pipeline_vars>>

\* The answers of the remote to the request the batch stands at: any
\* answer for the first league, a table, a body with 'errors' or no body
\* for the others.
TeamsAnswers ==
    IF ~InLoop THEN {}
    ELSE IF Params \in {StandingsParams("39"), FixturesParams("39")}
    THEN {<<200, data>> : data \in IF fetch_call.phase = "standings batch"
                                   THEN TableBodies ELSE MatchBodies}
            \cup {<<status, None>> : status \in HttpStatuses \ {200, 429}}
    ELSE IF fetch_call.phase = "standings batch"
    THEN {<<200, ToString(CHOOSE d \in TableDicts : Len(d.response[1].league.standings[1]) = 2)>>,
          <<200, ErrorsBody>>, <<500, None>>}
    ELSE {<<200, ToString(CHOOSE d \in MatchDicts : Len(d.response) = 1)>>, <<500, None>>}

AllTeamsNext ==
    \/ \E league_names \in LeagueNamesGiven, gap \in {0, Duration["medium"]} :
            AllTeamsCall(league_names, gap)
    \/ TeamsCached
    \/ TeamsMiss
    \/ BatchCached
    \/ \E answer \in TeamsAnswers : BatchGet(answer[1], answer[2])
    \/ BatchGetRaises
    \/ BatchReturn
    \/ TeamsFetched
    \/ AllTeamsReturn

(***************************************************************************)
(* _get_from_cache and _set_cache (src/api.py) called by several threads   *)
(* on one FootballAPI: a thread is switched between two statements and     *)
(* after datetime.now().                                                   *)
(***************************************************************************)
\* How many calls of a cache method a thread makes.
MaxThreadOps == 2

\* A thread in a cache method: the line it stands before, the arguments,
\* what line 47 read, the calls it has made, whether its last call raised
\* KeyError, and what its last del removed; in _set_cache, the data and the
\* datetime.now() of line 55 it is about to store.
CacheThread(at, key, cache_type, entry, ops, raised, removed) ==
    [at |-> at, key |-> key, cache_type |-> cache_type, entry |-> entry,
     ops |-> ops, raised |-> raised, removed |-> removed,
     data |-> None, timestamp |-> 0]
NoCacheThread == CacheThread("idle", "", "short", NoEntry, 0, FALSE, NoEntry)

\* The call of thread t returns or raises.
Leaves(t, raised, removed) ==
    [cache_thread EXCEPT ![t].at = "idle", ![t].ops = @ + 1,
                         ![t].raised = raised, ![t].removed = removed]

\* Line 55, the right-hand side: the tuple (data, datetime.now()) is built.
ThreadSetNow(t, key, data, cache_type) ==
    /\ cache_thread[t].at = "idle"
    /\ cache_thread[t].ops < MaxThreadOps
    /\ cache_thread' =
        [cache_thread EXCEPT ![t].at = "55", ![t].key = key,
                             ![t].cache_type = cache_type, ![t].data = data,
                             ![t].timestamp = now, ![t].entry = NoEntry,
                             ![t].raised = FALSE, ![t].removed = NoEntry]
    /\ UNCHANGED <<now, cache_vars, limiter_vars, batch_vars, fetch_call, limiter_thread,
                   pipeline_vars>>

\* Line 55, the store of the tuple built, and the return.
ThreadSet(t) ==
    /\ cache_thread[t].at = "55"
    /\ cache' = set_cache(cache, cache_thread[t].key, cache_thread[t].data,
                          cache_thread[t].cache_type, cache_thread[t].timestamp)
    /\ cache_thread' = Leaves(t, FALSE, NoEntry)
    /\ UNCHANGED <<now, cache_op, limiter_vars, batch_vars, fetch_call, limiter_thread,
                   pipeline_vars>>

\* Lines 45-46 and 51: key in cache_store, and the return of None if not.
ThreadGet(t, key, cache_type) ==
    /\ cache_thread[t].at = "idle"
    /\ cache_thread[t].ops < MaxThreadOps
    /\ cache_thread' =
        IF key \in DOMAIN cache[cache_type]
        THEN [cache_thread EXCEPT ![t].at = "47", ![t].key = key,
                                  ![t].cache_type = cache_type, ![t].entry = NoEntry,
                                  ![t].raised = FALSE, ![t].removed = NoEntry]
        ELSE [Leaves(t, FALSE, NoEntry) EXCEPT ![t].key = key,
                                               ![t].cache_type = cache_type,
                                               ![t].entry = NoEntry]
    /\ UNCHANGED <<now, cache_vars, limiter_vars, batch_vars, fetch_call, limiter_thread,
                   pipeline_vars>>

\* Line 47: data, timestamp = cache_store[key], KeyError if the key has gone.
ThreadRead(t) ==
    /\ cache_thread[t].at = "47"
    /\ cache_thread' =
        IF cache_thread[t].key \in DOMAIN cache[cache_thread[t].cache_type]
        THEN [cache_thread EXCEPT ![t].at = "48",
                ![t].entry = cache[cache_thread[t].cache_type][cache_thread[t].key]]
        ELSE Leaves(t, TRUE, NoEntry)
    /\ UNCHANGED <<now, cache_vars, limiter_vars, batch_vars, fetch_call, limiter_thread,
                   pipeline_vars>>

\* Lines 48-49: the entry read is fresh and its data returned, or it is not.
ThreadCompare(t) ==
    /\ cache_thread[t].at = "48"
    /\ cache_thread' =
        IF now - cache_thread[t].entry[2] < Duration[cache_thread[t].cache_type]
        THEN Leaves(t, FALSE, NoEntry)
        ELSE [cache_thread EXCEPT ![t].at = "50"]
    /\ UNCHANGED <<now, cache_vars, limiter_vars, batch_vars, fetch_call, limiter_thread,
                   pipeline_vars>>

\* Lines 50-51: del cache_store[key], KeyError if the key has gone.
ThreadDel(t) ==
    /\ cache_thread[t].at = "50"
    /\ LET T == cache_thread[t].cache_type
           K == cache_thread[t].key
       IN  IF K \in DOMAIN cache[T]
           THEN /\ cache' = [cache EXCEPT ![T] = Without(@, K)]
                /\ cache_thread' = Leaves(t, FALSE, cache[T][K])
           ELSE /\ cache' = cache
                /\ cache_thread' = Leaves(t, TRUE, NoEntry)
    /\ UNCHANGED <<now, cache_op, limiter_vars, batch_vars, fetch_call, limiter_thread,
                   pipeline_vars>>

CacheThreadsNext ==
    \/ \E t \in Threads, key \in CacheKeys, data \in CacheData :
            ThreadSetNow(t, key, data, "short")
    \/ \E t \in Threads : ThreadSet(t)
    \/ \E t \in Threads, key \in CacheKeys : ThreadGet(t, key, "short")
    \/ \E t \in Threads : ThreadRead(t)
    \/ \E t \in Threads : ThreadCompare(t)
    \/ \E t \in Threads : ThreadDel(t)
    \/ \E t \in Instants : CachePass(t)

(***************************************************************************)
(* RateLimiter.wait_if_needed (src/callbacks/data_collection_callback.py)  *)
(* called by several threads on one RateLimiter: a thread is switched      *)
(* after time.time() and between two reads or writes of self.calls.        *)
(***************************************************************************)
\* How many calls of wait_if_needed a thread makes.
MaxLimiterOps == 2

\* A thread in wait_if_needed: the line it stands before ("67" before the
\* list is built, "67 =" before it is assigned), its now, the list
\* it built at line 67, the second it sleeps until, the calls it has made,
\* whether the last raised IndexError, and the timestamps it has recorded.
LimiterThread(at, t, calls, until, ops, raised, stamps) ==
    [at |-> at, now |-> t, calls |-> calls, until |-> until, ops |-> ops,
     raised |-> raised, stamps |-> stamps]
NoLimiterThread == LimiterThread("idle", 0, <<>>, 0, 0, FALSE, <<>>)

\* Line 66: now = time.time()
ThreadNow(t) ==
    /\ limiter_thread[t].at = "idle"
    /\ limiter_thread[t].ops < MaxLimiterOps
    /\ limiter_thread' = [limiter_thread EXCEPT ![t].at = "67", ![t].now = now,
                            ![t].raised = FALSE]
    /\ UNCHANGED <<now, limiter_vars, cache_vars, batch_vars, fetch_call,
                   cache_thread, pipeline_vars>>

\* Line 67, the right-hand side: the list built from self.calls with the
\* thread's now.
ThreadPrune(t) ==
    /\ limiter_thread[t].at = "67"
    /\ limiter_thread' = [limiter_thread EXCEPT ![t].at = "67 =",
                            ![t].calls = Prune(limiter.calls, limiter_thread[t].now)]
    /\ UNCHANGED <<now, limiter_vars, cache_vars, batch_vars, fetch_call,
                   cache_thread, pipeline_vars>>

\* Line 67: self.calls = the list built.
ThreadAssign(t) ==
    /\ limiter_thread[t].at = "67 ="
    /\ limiter' = [limiter EXCEPT !.calls = limiter_thread[t].calls]
    /\ limiter_thread' = [limiter_thread EXCEPT ![t].at = "68"]
    /\ UNCHANGED <<now, admitted, cache_vars, batch_vars, fetch_call,
                   cache_thread, pipeline_vars>>

\* Line 68: len(self.calls) >= self.calls_per_minute
ThreadCheck(t) ==
    /\ limiter_thread[t].at = "68"
    /\ limiter_thread' =
        [limiter_thread EXCEPT ![t].at =
            IF Len(limiter.calls) >= limiter.calls_per_minute THEN "69" ELSE "72"]
    /\ UNCHANGED <<now, limiter_vars, cache_vars, batch_vars, fetch_call,
                   cache_thread, pipeline_vars>>

\* Lines 69-71: sleep_time from self.calls[0], IndexError if self.calls is
\* empty by now, and the start of time.sleep if sleep_time > 0.
ThreadSleepTime(t) ==
    /\ limiter_thread[t].at = "69"
    /\ limiter_thread' =
        IF limiter.calls = <<>>
        THEN [limiter_thread EXCEPT ![t].at = "idle", ![t].ops = @ + 1,
                                    ![t].raised = TRUE]
        ELSE IF SleepTime(limiter.calls, limiter_thread[t].now) > 0
        THEN [limiter_thread EXCEPT ![t].at = "71",
                ![t].until = now + SleepTime(limiter.calls, limiter_thread[t].now)]
        ELSE [limiter_thread EXCEPT ![t].at = "72"]
    /\ UNCHANGED <<now, limiter_vars, cache_vars, batch_vars, fetch_call,
                   cache_thread, pipeline_vars>>

\* Line 71: time.sleep returns, sleep_time seconds after it began or later.
ThreadWake(t) ==
    /\ limiter_thread[t].at = "71"
    /\ now >= limiter_thread[t].until
    /\ limiter_thread' = [limiter_thread EXCEPT ![t].at = "72"]
    /\ UNCHANGED <<now, limiter_vars, cache_vars, batch_vars, fetch_call,
                   cache_thread, pipeline_vars>>

\* Line 72: self.calls.append(now), and the return.
ThreadAppend(t) ==
    /\ limiter_thread[t].at = "72"
    /\ limiter' = [limiter EXCEPT !.calls = Append(@, limiter_thread[t].now)]
    /\ admitted' = Append(admitted, now)
    /\ limiter_thread' = [limiter_thread EXCEPT ![t].at = "idle", ![t].ops = @ + 1,
                            ![t].stamps = Append(@, limiter_thread[t].now)]
    /\ UNCHANGED <<now, cache_vars, batch_vars, fetch_call, cache_thread,
                   pipeline_vars>>

LimiterThreadsNext ==
    \/ \E t \in Threads : ThreadNow(t)
    \/ \E t \in Threads : ThreadPrune(t)
    \/ \E t \in Threads : ThreadAssign(t)
    \/ \E t \in Threads : ThreadCheck(t)
    \/ \E t \in Threads : ThreadSleepTime(t)
    \/ \E t \in Threads : ThreadWake(t)
    \/ \E t \in Threads : ThreadAppend(t)
    \/ \E t \in {Window - 1, Window} : LimiterPass(t)

\* No caller of a component has called.
CallersIdle ==
    /\ fetch_call = NoFetchCall
    /\ cache_thread = [t \in Threads |-> NoCacheThread]
    /\ limiter_thread = [t \in Threads |-> NoLimiterThread]

\* Nothing of the components has run.
ComponentsIdle ==
    /\ now = 0
    /\ cache = InitialCache
    /\ cache_op = NoCacheOp
    /\ limiter = NoLimiter
    /\ admitted = <<>>
    /\ batch_call = NoBatchCall
    /\ http = <<>>
    /\ CallersIdle

(***************************************************************************)
(* Scenarios and specifications.                                           *)
(***************************************************************************)
Statuses == {"absent", "same", "changed"}
MissingKeys == {"teams", "goals"}

\* The store in which the fixture at position i has status st[i].
StoreOf(st) ==
    [id \in {i \in DOMAIN st : st[i] # "absent"} |->
        IF st[id] = "same" THEN UpToDateDoc(id) ELSE ChangedDoc(id)]

\* The status of every fixture of a list of n: any for a short list, one
\* per chunk for a long one.
StatusMaps(n) ==
    IF n <= SmallN
    THEN [1..n -> Statuses]
    ELSE {[i \in 1..n |-> byChunk[(i - 1) \div chunk_size + 1]] :
            byChunk \in [1..NumChunks(n) -> Statuses]}

\* The list of n fixtures in which fixture `bad` (if any) lacks `key`.
RemoteList(n, bad, key) ==
    [i \in 1..n |-> Fixture(i, FetchedDate, IF i = bad THEN AllKeys \ {key} ELSE AllKeys)]

\* The league_ids a start request may carry (seasons is '2024' throughout).
SelectionLists ==
    UNION {[1..k -> {Selection(League), Selection(NoLeague)}] : k \in 0..MaxSelections}

\* A list of more than SmallN fixtures is asked for by one complete row.
Requests(fixtures) ==
    IF Len(fixtures) > SmallN THEN {<<Selection(League)>>} ELSE SelectionLists

Scenario(sizes, callers) ==
    /\ \E n \in sizes, bad \in 0..BigN + 1, key \in MissingKeys :
        /\ \/ bad = 0 /\ key = "teams"
           \/ bad \in 1..n /\ FaultProne(n, bad) /\ MaxFaults > 0
        /\ remote = RemoteList(n, bad, key)
        /\ faults_left = IF bad = 0 THEN MaxFaults ELSE MaxFaults - 1
        /\ \E st \in StatusMaps(n) : store = StoreOf(st)
    /\ global_state = GlobalState
    /\ log_list = 0
    /\ pc = [t \in Threads |-> "idle"]
    /\ args = [t \in Threads |-> <<>>]
    /\ idx = [t \in Threads |-> 0]
    /\ run = [t \in Threads |-> NoRun]
    /\ requests_left = [t \in Threads |-> IF t \in callers THEN 1 ELSE 0]
    /\ history = <<>>
    /\ ComponentsIdle

Step(t) ==
    \/ \E league_ids \in Requests(remote) : StartCollection(t, league_ids)
    \/ SC_Set(t)
    \/ SC_Spawn(t)
    \/ SC_SkipIncomplete(t)
    \/ SC_Return(t)
    \/ AL_Read(t)
    \/ AL_Append(t)
    \/ AL_Status(t)
    \/ PC_Error(t)
    \/ PC_Failed(t)
    \/ PC_Begin(t)
    \/ PC_BeginRaises(t)
    \/ PC_FetchRaises(t)
    \/ PC_FetchEmpty(t)
    \/ PC_NoFixtures(t)
    \/ PC_Fetch(t)
    \/ PC_Chunk(t)
    \/ PC_Batch(t)
    \/ PC_LookupRaises(t)
    \/ PC_Skip(t)
    \/ PC_Continue(t)
    \/ PC_NoTeams(t)
    \/ PC_Process(t)
    \/ \E ok \in 0..Len(DetailKinds) : PC_Details(t, ok)
    \/ PC_CommitRaises(t)
    \/ PC_Commit(t)
    \/ PC_Progress(t)
    \/ PC_Finish(t)
    \/ PC_Completed(t)

Next == \E t \in Threads : Step(t)

\* One start request for a short fixture list with any store, or two start
\* requests handled at the same time while the remote lists no fixture.
Init == Scenario(0..SmallN, {"t1"}) \/ Scenario({0}, Threads)
Spec == Init /\ [][Next]_vars

\* One start request for a fixture list of one to three chunks (or none).
InitChunks == Scenario({0, chunk_size, chunk_size + 1, BigN}, {"t1"})
SpecChunks == InitChunks /\ [][Next]_vars

\* One start request for a list of up to SmallN - 1 fixtures, the store
\* holding, next to any documents of these, the documents of two fixtures the
\* remote does not list: one as ingested, one as an earlier ingestion left it.
OtherDocs(n) ==
    [id \in {n + 1, n + 2} |-> IF id = n + 1 THEN UpToDateDoc(id) ELSE ChangedDoc(id)]
InitOthers ==
    /\ \E n \in 0..SmallN - 1, bad \in 0..SmallN, key \in MissingKeys :
        /\ \/ bad = 0 /\ key = "teams"
           \/ bad \in 1..n /\ FaultProne(n, bad) /\ MaxFaults > 0
        /\ remote = RemoteList(n, bad, key)
        /\ faults_left = IF bad = 0 THEN MaxFaults ELSE MaxFaults - 1
        /\ \E st \in StatusMaps(n) : store = StoreOf(st) @@ OtherDocs(n)
    /\ global_state = GlobalState
    /\ log_list = 0
    /\ pc = [t \in Threads |-> "idle"]
    /\ args = [t \in Threads |-> <<>>]
    /\ idx = [t \in Threads |-> 0]
    /\ run = [t \in Threads |-> NoRun]
    /\ requests_left = [t \in Threads |-> IF t = "t1" THEN 1 ELSE 0]
    /\ history = <<>>
    /\ ComponentsIdle
SpecOthers == InitOthers /\ [][Next]_vars

\* No start request arrives: the pipeline stays as constructed.
PipelineIdle ==
    /\ global_state = GlobalState
    /\ log_list = 0
    /\ store = EmptyDict
    /\ remote = <<>>
    /\ faults_left = 0
    /\ pc = [t \in Threads |-> "idle"]
    /\ args = [t \in Threads |-> <<>>]
    /\ idx = [t \in Threads |-> 0]
    /\ run = [t \in Threads |-> NoRun]
    /\ requests_left = [t \in Threads |-> 0]
    /\ history = <<>>

\* Any sequence of cache operations on a fresh FootballAPI, with at most
\* MaxSets _set_cache calls, the clock moving through Instants.
InitCache == PipelineIdle /\ ComponentsIdle
SpecCache == InitCache /\ [][CacheNext]_vars

\* A fresh RateLimiter of 1..MaxRate calls per minute and one caller, who
\* calls wait_if_needed up to MaxWaits times at seconds of CallTimes.
InitLimiter ==
    /\ PipelineIdle
    /\ now = 0
    /\ cache = InitialCache
    /\ cache_op = NoCacheOp
    /\ \E calls_per_minute \in 1..MaxRate : limiter = RateLimiter(calls_per_minute)
    /\ admitted = <<>>
    /\ batch_call = NoBatchCall
    /\ http = <<>>
    /\ CallersIdle
SpecLimiter == InitLimiter /\ [][LimiterNext]_vars
\* time.sleep returns: a sleeping caller wakes.
SpecLimiterFair ==
    SpecLimiter /\ WF_vars(\E late \in 0..MaxOversleep : WaitWake(late))

\* The same RateLimiter and two threads, each calling wait_if_needed up to
\* MaxLimiterOps times.
SpecLimiterThreads == InitLimiter /\ [][LimiterThreadsNext]_vars

\* Up to MaxBatchCalls calls of _batch_request on a fresh FootballAPI, for
\* lists of distinct parameter sets, the remote answering as it will.
InitBatch == PipelineIdle /\ ComponentsIdle
SpecBatch == InitBatch /\ [][BatchNext]_vars

\* Two threads, each calling _get_from_cache and _set_cache on the 'short'
\* store of one fresh FootballAPI up to MaxThreadOps times, switched between
\* any two statements, the clock moving through Instants.
InitCacheThreads == PipelineIdle /\ ComponentsIdle
SpecCacheThreads == InitCacheThreads /\ [][CacheThreadsNext]_vars

\* Up to MaxFetchCalls calls of one fetch operation with one argument on a
\* fresh FootballAPI, the remote answering as it will.
InitFetch ==
    /\ PipelineIdle
    /\ now = 0
    /\ cache = InitialCache
    /\ cache_op = NoCacheOp
    /\ limiter = NoLimiter
    /\ admitted = <<>>
    /\ batch_call = NoBatchCall
    /\ http = <<>>
    /\ \E o \in FetchOps : fetch_call = FetchCall(o[1], o[2], "idle", 0, None, None)
    /\ cache_thread = [t \in Threads |-> NoCacheThread]
    /\ limiter_thread = [t \in Threads |-> NoLimiterThread]
SpecFetch == InitFetch /\ [][FetchNext]_vars

\* Up to MaxFetchCalls calls of fetch_fixtures for league 39, each for any
\* season, on a fresh FootballAPI.
InitSeasons ==
    /\ PipelineIdle
    /\ now = 0
    /\ cache = InitialCache
    /\ cache_op = NoCacheOp
    /\ limiter = NoLimiter
    /\ admitted = <<>>
    /\ batch_call = NoBatchCall
    /\ http = <<>>
    /\ fetch_call = FetchCall("fetch_fixtures", "39", "idle", 0, None, None)
    /\ cache_thread = [t \in Threads |-> NoCacheThread]
    /\ limiter_thread = [t \in Threads |-> NoLimiterThread]
SpecSeasons == InitSeasons /\ [][SeasonsNext]_vars

\* Up to MaxFetchCalls calls of fetch_all_teams on a fresh FootballAPI, for
\* two leagues or for ALL_LEAGUES.
InitAllTeams ==
    /\ PipelineIdle
    /\ now = 0
    /\ cache = InitialCache
    /\ cache_op = NoCacheOp
    /\ limiter = NoLimiter
    /\ admitted = <<>>
    /\ batch_call = NoBatchCall
    /\ http = <<>>
    /\ fetch_call = FetchCall("fetch_all_teams", "", "idle", 0, None, None)
    /\ cache_thread = [t \in Threads |-> NoCacheThread]
    /\ limiter_thread = [t \in Threads |-> NoLimiterThread]
SpecAllTeams == InitAllTeams /\ [][AllTeamsNext]_vars

(***************************************************************************)
(* What the claims speak of.                                               *)
(***************************************************************************)
\* The runs executing: worker threads started and not yet ended.
Executing == {t \in Threads : run[t].outcome = "running"}

\* The number of detail requests a run issued.
RECURSIVE SumOver(_, _)
SumOver(f, S) ==
    IF S = {} THEN 0
    ELSE LET x == CHOOSE y \in S : TRUE IN f[x] + SumOver(f, S \ {x})
DetailCalls(details) == SumOver(details, DOMAIN details)

\* The sizes and the document ids of the batch writes of a run.
Sizes(writes) == [k \in DOMAIN writes |-> Len(writes[k])]
Ids(batch) == [k \in DOMAIN batch |-> batch[k].id]
WrittenIds(writes) == UNION {{writes[k][m].id : m \in DOMAIN writes[k]} : k \in DOMAIN writes}

\* The chunk of position p, and whether run r of thread t is past the commit
\* step of chunk c.
ChunkOf(p) == (p - 1) \div chunk_size + 1
PastCommit(t, c) ==
    \/ c < run[t].i
    \/ /\ c = run[t].i
       /\ \/ pc[t] \in {"219", "pc_finish", "223"}
          \/ run[t].after \in {"219", "223"}
          \/ run[t].outcome = "completed"

\* The document a clean ingestion of a fetched fixture stores.
FreshDoc(fixture) == FixtureData(fixture, FullDetails(fixture.fixture.id))
\* Every fetched fixture is stored with the fetched date and the sub-resources
\* the remote serves.
StoreConsistent ==
    \A p \in DOMAIN remote :
        /\ remote[p].fixture.id \in DOMAIN store
        /\ store[remote[p].fixture.id] = FreshDoc(remote[p])

\* The fixtures of run r that were not up to date when the run began.
Stale0(r) == {p \in DOMAIN r.fixtures : ~IsUpToDate(r.store0, r.fixtures[p])}

(***************************************************************************)
(* The claims.                                                             *)
(***************************************************************************)
\* C1: at every moment at most one ingestion run is executing: no start
\* request spawns a worker while a run of an earlier request is executing.
C1_NoStartWhileRunning ==
    [][\A t \in Threads :
        (/\ pc[t] = "idle" /\ pc'[t] = "373"
         /\ \E k \in DOMAIN args'[t] : Complete(args'[t][k]))
        => Executing = {}]_vars

\* C2: when two runs in succession complete and no request of the first
\* failed (the remote list is the same throughout), the second run issues no
\* detail request and no batch write.
C2_IdempotentReingestion ==
    \A k \in 1..Len(history) - 1 :
        (/\ history[k].outcome = "completed"
         /\ history[k].faults = 0
         /\ history[k + 1].outcome = "completed")
        => /\ DetailCalls(history[k + 1].details) = 0
           /\ history[k + 1].writes = <<>>
\* Two completed runs in succession, the first of which wrote and the second
\* of which looked up every fixture.
C2_Witness ==
    /\ Len(history) = 2
    /\ history[1].outcome = "completed" /\ history[1].faults = 0
    /\ history[1].writes # <<>>
    /\ history[2].outcome = "completed"
    /\ history[2].lookups = history[2].total /\ history[2].total > 1

\* C3: for every fetched fixture stored with another date, the run issues
\* all four detail requests and, once the chunk is committed, the stored
\* record has the fetched date and the four fetched sub-resources.
C3_ChangedFixtureReplaced ==
    \A t \in Threads : \A p \in DOMAIN run[t].fixtures :
        LET fixture == run[t].fixtures[p]
            id == fixture.fixture.id
        IN  (/\ PastCommit(t, ChunkOf(p))
             /\ id \in DOMAIN run[t].store0
             /\ run[t].store0[id].fixture.date # fixture.fixture.date)
            => /\ id \in DOMAIN run[t].details
               /\ run[t].details[id] = Len(DetailKinds)
               /\ store[id] = FreshDoc(fixture)

\* C4: a run that completes with none of its n fixtures skipped issues
\* ceil(n / chunk_size) batch writes, the k-th carrying the records of the
\* k-th chunk, and reports 100.0% at the end.
C4_BatchChunking ==
    \A t \in Threads :
        LET r == run[t] n == Len(r.fixtures) IN
        (r.outcome = "completed" /\ n > 0 /\ r.total_processed = n)
        => /\ Len(r.writes) = (n + chunk_size - 1) \div chunk_size
           /\ \A k \in DOMAIN r.writes :
                Ids(r.writes[k]) =
                    [m \in 1..Min(chunk_size, n - (k - 1) * chunk_size) |->
                        r.fixtures[(k - 1) * chunk_size + m].fixture.id]
           /\ global_state.current_progress = <<1000, n, n>>
\* 45 fixtures ingested in three batch writes of 20, 20 and 5.
C4_Witness ==
    \E t \in Threads :
        /\ run[t].outcome = "completed"
        /\ Len(run[t].fixtures) = 45
        /\ run[t].total_processed = 45
        /\ Sizes(run[t].writes) = <<20, 20, 5>>
        /\ global_state.current_progress = <<1000, 45, 45>>

\* C5: a batch write is issued for a chunk exactly when a fixture of that
\* chunk was not skipped: no batch write carries nothing.
C5_CommitIffPending ==
    \A t \in Threads : \A k \in DOMAIN run[t].writes : run[t].writes[k] # <<>>

\* C6: a run that completes with no request failing issues 4 detail requests
\* per fixture not skipped and commits the records of exactly those
\* fixtures; with 3 fixtures of which 1 is up to date, 8 detail requests and
\* one batch of 2.
C6_DetailsAndRecords ==
    \A t \in Threads :
        LET r == run[t] IN
        (r.outcome = "completed" /\ r.faults = 0)
        => /\ DetailCalls(r.details) = 4 * Cardinality(Stale0(r))
           /\ WrittenIds(r.writes) = {r.fixtures[p].fixture.id : p \in Stale0(r)}
           /\ r.total_processed = Cardinality(Stale0(r))
           /\ (Len(r.fixtures) = 3 /\ Cardinality(Stale0(r)) = 2)
                => DetailCalls(r.details) = 8 /\ Sizes(r.writes) = <<2>>
\* 3 fixtures, 1 stored with the fetched date and 2 not stored: 8 detail
\* requests, one batch of 2.
C6_Witness ==
    \E t \in Threads :
        LET r == run[t] IN
        /\ r.outcome = "completed" /\ r.faults = 0
        /\ Len(r.fixtures) = 3
        /\ Cardinality(DOMAIN r.store0) = 1
        /\ Cardinality(Stale0(r)) = 2
        /\ DetailCalls(r.details) = 8
        /\ Sizes(r.writes) = <<2>>

\* C7 as claimed: a completed run with 3 fixtures, 1 skipped and 2
\* processed, reports "100.0% (2/3)".
C7_Reports100 ==
    \A t \in Threads :
        (/\ run[t].outcome = "completed"
         /\ Len(run[t].fixtures) = 3
         /\ run[t].total_processed = 2)
        => global_state.current_progress = <<1000, 2, 3>>
\* C7 as amended: a completed run with 3 fixtures, 1 skipped and 2
\* processed, reports "66.7% (2/3)", the percentage being processed / total.
C7_Reports667 ==
    \A t \in Threads :
        (/\ run[t].outcome = "completed"
         /\ Len(run[t].fixtures) = 3
         /\ run[t].total_processed = 2)
        => global_state.current_progress = <<667, 2, 3>>
\* A completed run of 3 fixtures with 1 skipped and 2 processed.
C7_Witness ==
    \E t \in Threads :
        /\ run[t].outcome = "completed"
        /\ Len(run[t].fixtures) = 3
        /\ run[t].total_processed = 2
        /\ run[t].lookups = 3

\* C8: whenever a run ends by an exception, it ends with current_error the
\* exception's message and is_running false.
C8_FailedState ==
    [][\A t \in Threads :
        (run[t].outcome = "running" /\ run'[t].outcome \in {"failed", "crashed"})
        => /\ global_state'.current_error = run'[t].error
           /\ ~global_state'.is_running]_vars

\* C9: when a run fails in chunk i, the records of its batch writes, all of
\* chunks before i, are in the store, and the store holds for every fixture
\* of chunk i and later what it held when the run began.
C9_NoRollback ==
    \A t \in Threads :
        LET r == run[t] IN
        r.outcome = "failed"
        => /\ Len(r.writes) <= r.i - 1 \/ r.writes = <<>>
           /\ \A k \in DOMAIN r.writes : \A m \in DOMAIN r.writes[k] :
                /\ ChunkOf(CHOOSE p \in DOMAIN r.fixtures :
                        r.fixtures[p].fixture.id = r.writes[k][m].id) < r.i
                /\ r.writes[k][m].id \in DOMAIN store
                /\ store[r.writes[k][m].id] = r.writes[k][m].data
           /\ \A p \in DOMAIN r.fixtures :
                ChunkOf(p) >= r.i
                => LET id == r.fixtures[p].fixture.id IN
                   /\ id \in DOMAIN store <=> id \in DOMAIN r.store0
                   /\ id \in DOMAIN store => store[id] = r.store0[id]
\* A run that failed in its second or third chunk with records pending,
\* after a batch write.
C9_Witness ==
    \E t \in Threads :
        /\ run[t].outcome = "failed"
        /\ run[t].i >= 2
        /\ run[t].writes # <<>>
        /\ run[t].batch # <<>>

\* C10: a re-run that completes with every request answered, after a run
\* that failed or in which requests failed, leaves every fetched fixture
\* stored with the fetched date and the sub-resources the remote serves.
C10_ConsistentAfterRetry ==
    \A k \in 2..Len(history) :
        (/\ history[k].outcome = "completed"
         /\ history[k].faults = 0
         /\ \E j \in 1..k - 1 : history[j].faults > 0)
        => StoreConsistent

\* C11: a run whose requests all succeed does not end in Failed because a
\* fetched fixture lacks a field (teams, goals, score): the fixture is
\* skipped and the run goes on.
C11_MalformedFixtureSkipped ==
    \A t \in Threads :
        LET r == run[t] IN
        (/\ r.faults = 0
         /\ \E p \in DOMAIN r.fixtures : r.fixtures[p].keys # AllKeys)
        => r.outcome # "failed"

\* C12: when the fixture-list request returns no fixture the run goes
\* straight to the log line 'No fixtures found' and from there to its end:
\* it ends as completed with no storage lookup, no detail request, no batch
\* write and nothing processed, the store as it was when the run began, and
\* the step that ends it clears is_running.
C12_ZeroFixtures ==
    [][\A t \in Threads :
        /\ (/\ pc[t] = "pc_fetch"
            /\ remote = <<>>
            /\ pc'[t] # pc[t]
            /\ run'[t].faults = run[t].faults)
            => /\ run'[t].message = Msg("No fixtures found", 0, 0, "")
               /\ run'[t].after = "162"
               /\ store' = store
        /\ (pc[t] = "162" /\ pc'[t] # pc[t])
            => /\ run'[t].outcome = "completed"
               /\ run'[t].lookups = 0
               /\ DetailCalls(run'[t].details) = 0
               /\ run'[t].writes = <<>>
               /\ run'[t].total_processed = 0
               /\ store' = run[t].store0
               /\ ~global_state'.is_running]_vars
\* A run over an empty fixture list has completed and is_running is clear.
C12_Witness ==
    \E t \in Threads :
        /\ run[t].outcome = "completed"
        /\ run[t].fixtures = <<>>
        /\ remote = <<>>
        /\ run[t].lookups = 0
        /\ run[t].writes = <<>>
        /\ ~global_state.is_running
        /\ global_state.log_messages # <<>>

\* C13: _get_from_cache(K, T) right after _set_cache(K, V, T), no time
\* having passed, returns V, whatever K held in T before.
C13_RoundTrip ==
    [][(/\ cache_op.op = "set"
        /\ cache_op'.op = "get"
        /\ cache_op'.key = cache_op.key
        /\ cache_op'.cache_type = cache_op.cache_type)
       => cache_op'.data = cache_op.data]_vars
\* A get that returned "v2" from an entry stamped after the start, the
\* second _set_cache of the behaviour.
C13_Witness ==
    /\ cache_op.op = "get"
    /\ cache_op.data = "v2"
    /\ cache_op.sets = 2
    /\ now > 0
    /\ cache_op.before = <<"v2", now>>

\* C14: _get_from_cache(K, T) returns the stored data exactly when K has an
\* entry in T stamped less than T's duration ago; an entry stamped that long
\* ago or longer is removed and None returned; the entries of other keys
\* and other cache types stay as they were.
C14_Expiry ==
    [][(cache_op'.op = "get")
       => LET K == cache_op'.key
              T == cache_op'.cache_type
              exists == K \in DOMAIN cache[T]
              fresh == exists /\ now - cache[T][K][2] < Duration[T]
          IN  /\ fresh => cache_op'.data = cache[T][K][1] /\ cache' = cache
              /\ ~fresh => cache_op'.data = None /\ K \notin DOMAIN cache'[T]
              /\ \A T2 \in CacheTypes : \A K2 \in CacheKeys :
                    (T2 # T \/ K2 # K)
                    => Entry(cache', K2, T2) = Entry(cache, K2, T2)]_vars
\* A get that found an entry stamped at 0 exactly its duration later,
\* returned None and removed it, an entry of the other key staying in the
\* same store.
C14_Witness ==
    /\ cache_op.op = "get"
    /\ cache_op.before # NoEntry
    /\ cache_op.before[2] = 0
    /\ now = Duration[cache_op.cache_type]
    /\ cache_op.data = None
    /\ cache_op.key \notin DOMAIN cache[cache_op.cache_type]
    /\ cache[cache_op.cache_type] # EmptyDict

\* C15: whenever wait_if_needed has returned, the RateLimiter holds at most
\* calls_per_minute recorded timestamps.
C15_RateWindow ==
    limiter.pc = "idle" => Len(limiter.calls) <= limiter.calls_per_minute

\* C16: no 60 seconds hold more than calls_per_minute returns of
\* wait_if_needed: counted from any return, fewer than 60 seconds later at
\* most calls_per_minute calls have returned, that one included.
C16_SlidingWindow ==
    \A i \in DOMAIN admitted :
        Cardinality({j \in DOMAIN admitted :
                        /\ admitted[i] <= admitted[j]
                        /\ admitted[j] < admitted[i] + Window})
            <= limiter.calls_per_minute

\* C17: a wait_if_needed call that finds calls_per_minute timestamps or
\* more recorded in the last 60 seconds returns no earlier than 60 seconds
\* after the earliest of them.
C17_Delayed ==
    [][(/\ Len(admitted') = Len(admitted) + 1
        /\ Len(limiter'.calls) > limiter.calls_per_minute)
       => now' >= limiter'.calls[1] + Window]_vars
\* The third call to a RateLimiter(2), made less than 60 seconds after the
\* first, has slept and returned 60 seconds after the first or later.
C17_Witness ==
    /\ limiter.pc = "idle"
    /\ limiter.calls_per_minute = 2
    /\ Len(admitted) = 3
    /\ Len(limiter.calls) = 3
    /\ limiter.calls[3] > limiter.calls[1]
    /\ limiter.calls[3] - limiter.calls[1] < Window
    /\ limiter.sleep_time > 0
    /\ admitted[3] >= limiter.calls[1] + Window

\* C18: a caller in wait_if_needed sleeps at most once and at most 60
\* seconds, then records the time it read on entry and returns; a caller
\* asleep returns in the end.
C18_NeverRejects ==
    /\ [](limiter.pc = "sleep" => limiter.sleep_time \in 1..Window)
    /\ [][limiter.pc = "sleep"
          => /\ limiter'.pc = "idle"
             /\ limiter'.calls = Append(limiter.calls, limiter.now)
             /\ Len(admitted') = Len(admitted) + 1]_vars
    /\ [][(limiter.pc = "idle" /\ limiter'.pc = "idle" /\ limiter' # limiter)
          => /\ limiter'.calls # <<>>
             /\ limiter'.calls[Len(limiter'.calls)] = now
             /\ admitted' = Append(admitted, now)]_vars
    /\ (limiter.pc = "sleep") ~> (limiter.pc = "idle")
\* A call that slept a full 60 seconds has returned.
C18_Witness ==
    /\ limiter.pc = "idle"
    /\ limiter.sleep_time = Window
    /\ admitted # <<>>
    /\ admitted[Len(admitted)] >= limiter.now + Window
    /\ limiter.calls[Len(limiter.calls)] = limiter.now

\* The requests.get calls of the current _batch_request call for p.
Gets(p) == SelectSeq(http, LAMBDA e : e.kind = "GET" /\ e.params = p)

\* C19: _batch_request issues no more HTTP GETs than wait_if_needed calls
\* have returned: every GET passed the RateLimiter.
C19_RateLimited ==
    Len(SelectSeq(http, LAMBDA e : e.kind = "GET")) <= Len(admitted)

\* C20: in one _batch_request call a parameter set is requested at most
\* twice, the second time only after a 429 and the 60-second sleep, and
\* after a 429 always; a 200 on the retry is in the mapping returned and in
\* the 'short' store, stamped when it was received; after any other retry
\* the parameter set is not in the mapping and the store holds for it what
\* the call found, or nothing.
C20_RetryOnce ==
    \A p \in ParamSets :
        LET g == Gets(p) IN
        /\ Len(g) <= 2
        /\ (Len(g) = 1 /\ g[1].status = 429)
            => batch_call.phase = "retry" /\ Params = p
        /\ Len(g) = 2
            => /\ g[1].status = 429
               /\ \E i \in DOMAIN http :
                    /\ i + 2 \in DOMAIN http
                    /\ http[i] = g[1]
                    /\ http[i + 1] = Sleep("sleep 60", g[1].at)
                    /\ http[i + 2] = g[2]
               /\ g[2].at = g[1].at + 60
               /\ IF g[2].status = 200
                  THEN /\ p \in DOMAIN batch_call.results
                       /\ batch_call.results[p] = g[2].data
                       /\ Entry(cache, p, "short") = <<g[2].data, g[2].at>>
                  ELSE /\ p \notin DOMAIN batch_call.results
                       /\ Entry(cache, p, "short")
                            \in {NoEntry, Entry(batch_call.cache0, p, "short")}
\* A call for two parameter sets has returned: both were answered 429; the
\* retry of the first was answered 200 with rows, which are in the mapping
\* and in the store; the retry of the second was answered 500, and the
\* second is in neither.
C20_Witness ==
    /\ batch_call.phase = "idle"
    /\ batch_call.params_list = <<"p1", "p2">>
    /\ Len(Gets("p1")) = 2
    /\ Gets("p1")[2].status = 200
    /\ Len(Gets("p2")) = 2
    /\ Gets("p2")[2].status = 500
    /\ DOMAIN batch_call.results = {"p1"}
    /\ batch_call.results["p1"] = RowsBody
    /\ DOMAIN cache["short"] = {"p1"}

\* The parameter sets of the list of the current _batch_request call.
Listed == {batch_call.params_list[i] : i \in DOMAIN batch_call.params_list}
\* When its lookup was made, the cache held for p, as the call found it, a
\* response stored less than the 'short' duration before.
HadFresh(p) ==
    \E i \in DOMAIN http :
        /\ http[i].kind = "lookup"
        /\ http[i].params = p
        /\ Entry(batch_call.cache0, p, "short") # NoEntry
        /\ http[i].at - Entry(batch_call.cache0, p, "short")[2] < Duration["short"]
\* The last requests.get for p was answered 200.
Ended200(p) == Gets(p) # <<>> /\ Gets(p)[Len(Gets(p))].status = 200

\* C21: a _batch_request call that has returned has looked up every
\* parameter set of its list, and its mapping holds exactly those that had a
\* fresh cached response or whose last GET was answered 200.
C21_NoAbort ==
    (batch_call.phase = "idle" /\ batch_call.n > 0)
    => /\ \A p \in Listed :
            \E i \in DOMAIN http : http[i].kind = "lookup" /\ http[i].params = p
       /\ DOMAIN batch_call.results = {p \in Listed : HadFresh(p) \/ Ended200(p)}

\* C22: a 200 whose body has a non-empty 'errors' is a failure for
\* _batch_request: the body is neither in the mapping of a call nor in the
\* 'short' store.
C22_ErrorsAreFailures ==
    \A p \in ParamSets :
        /\ p \in DOMAIN batch_call.results => batch_call.results[p] # ErrorsBody
        /\ Entry(cache, p, "short")[1] # ErrorsBody

\* The leagues of a fan-out, and those whose call succeeded: the last
\* requests.get for the league was answered 200 with a body free of errors.
Leagues == {LEAGUE_NAMES[i] : i \in DOMAIN LEAGUE_NAMES}
Succeeded(p) == Ended200(p) /\ Gets(p)[Len(Gets(p))].data # ErrorsBody
LastBody(p) == Gets(p)[Len(Gets(p))].data
\* A call of fetch_standings for ALL_LEAGUES has been through
\* _batch_request and has returned.
FannedOut ==
    /\ fetch_call.op = "fetch_standings"
    /\ fetch_call.arg = ALL_LEAGUES
    /\ fetch_call.phase = "idle"
    /\ http # <<>>

\* C23: fetch_standings for ALL_LEAGUES asks for every league of
\* LEAGUE_NAMES once, and returns the mapping from exactly the leagues whose
\* call succeeded to the body each was answered with, whichever leagues
\* failed.
C23_FanOut ==
    FannedOut
    => /\ \A l \in Leagues :
            Cardinality({i \in DOMAIN http :
                http[i].kind = "lookup" /\ http[i].params = StandingsParams(l)}) = 1
       /\ fetch_call.returned =
            TextOfDict([l \in {m \in Leagues : Succeeded(StandingsParams(m))} |->
                            LastBody(StandingsParams(l))])

\* A call of fetch_match_odds has been through _batch_request and has
\* returned; the body it was handed, if any.
OddsFetched ==
    /\ fetch_call.op = "fetch_match_odds"
    /\ fetch_call.phase = "idle"
    /\ http # <<>>
OddsBody == Get(batch_call.results, OddsParams(fetch_call.arg), None)
\* The four levels of an odds body: a response, its bookmakers, the bets
\* of the first, the values of the first, three at least.
AllLevels(d) ==
    /\ "response" \in DOMAIN d /\ d.response # <<>>
    /\ "bookmakers" \in DOMAIN d.response[1]
    /\ d.response[1].bookmakers # <<>>
    /\ "bets" \in DOMAIN d.response[1].bookmakers[1]
    /\ d.response[1].bookmakers[1].bets # <<>>
    /\ "values" \in DOMAIN d.response[1].bookmakers[1].bets[1]
    /\ Len(d.response[1].bookmakers[1].bets[1].values) >= 3
FirstValues(d) == d.response[1].bookmakers[1].bets[1].values

\* C24: fetch_match_odds returns home "0", draw "0", away "0" when the
\* fetch failed or the body lacks a response, a bookmaker, a bet or a third
\* value, and the odds of the first three values when it lacks none.
C24_OddsSentinel ==
    OddsFetched
    => IF OddsBody \notin {None, EmptyBody} /\ AllLevels(OddsJson(OddsBody))
       THEN fetch_call.returned =
                ToString([home |-> Get(FirstValues(OddsJson(OddsBody))[1], "odd", "0"),
                          draw |-> Get(FirstValues(OddsJson(OddsBody))[2], "odd", "0"),
                          away |-> Get(FirstValues(OddsJson(OddsBody))[3], "odd", "0")])
       ELSE fetch_call.returned = ToString([home |-> "0", draw |-> "0", away |-> "0"])
\* A call answered with an empty bookmaker list returned the zeros, and a
\* later call answered with three values returned their odds.
C24_Witness ==
    /\ OddsFetched
    /\ fetch_call.previous = ToString([home |-> "0", draw |-> "0", away |-> "0"])
    /\ fetch_call.returned = ToString([home |-> "2.10", draw |-> "3.40", away |-> "3.60"])
    /\ \E i \in DOMAIN http :
        /\ http[i].kind = "GET" /\ http[i].status = 200
        /\ Len(FirstValues(OddsJson(http[i].data))) = 3

\* A call of fetch_next_fixtures has been through _batch_request and has
\* returned, handed a listing of fixtures that all have their round.
NextFetched ==
    /\ fetch_call.op = "fetch_next_fixtures"
    /\ fetch_call.phase = "idle"
    /\ http # <<>>
    /\ NextParams(fetch_call.arg) \in DOMAIN batch_call.results
    /\ batch_call.results[NextParams(fetch_call.arg)] # EmptyBody
    /\ "response" \in DOMAIN NextJson(batch_call.results[NextParams(fetch_call.arg)])
    /\ LET l == NextJson(batch_call.results[NextParams(fetch_call.arg)]).response
       IN  l # <<>> /\ \A i \in DOMAIN l : l[i] \in NextFixtures
Listed25 == NextJson(batch_call.results[NextParams(fetch_call.arg)]).response
\* The dates are ISO dates of one year: the order of their day of the year.
DayOf(date) ==
    CASE date = "2024-05-04" -> 125
      [] date = "2024-05-11" -> 132
      [] date = "2024-05-15" -> 136
      [] date = "2024-05-18" -> 139
\* The round of the fixture with the earliest date.
EarliestRound(l) ==
    LET i == CHOOSE i \in DOMAIN l :
                \A j \in DOMAIN l : DayOf(l[i].fixture.date) <= DayOf(l[j].fixture.date)
    IN  l[i].league.round

\* C25: fetch_next_fixtures returns the listed fixtures of the round of the
\* fixture with the earliest date, and no other, in whatever order the
\* remote lists them.
C25_EarliestRound ==
    NextFetched
    => fetch_call.returned =
        TextOfList(SelectSeq(Listed25,
            LAMBDA fix : fix.league.round = EarliestRound(Listed25)))

\* C26: with several threads calling the cache, no _get_from_cache raises,
\* and the entry a _get_from_cache removes is the expired entry it read,
\* never one set since.
C26_ThreadSafe ==
    \A t \in Threads :
        /\ ~cache_thread[t].raised
        /\ cache_thread[t].removed # NoEntry
            => cache_thread[t].removed = cache_thread[t].entry

\* The timestamps the threads have recorded that are less than 60 seconds
\* old, and the times of the admissions of the 60 seconds up to now.
Recorded(t) == Prune(limiter_thread[t].stamps, now)
RecentlyAdmitted == Prune(admitted, now)

\* C27: with several threads calling wait_if_needed on one RateLimiter, the
\* timestamps recorded in the last 60 seconds are all in self.calls, and no
\* more callers than calls_per_minute were admitted in those 60 seconds.
C27_ConcurrentCallers ==
    /\ (\A t \in Threads : limiter_thread[t].at \in {"idle", "71"})
        => Len(Prune(limiter.calls, now)) >= Len(Recorded("t1")) + Len(Recorded("t2"))
    /\ Len(RecentlyAdmitted) <= limiter.calls_per_minute

\* C28: a call of a fetch operation made after a call with the same
\* arguments whose requests were all answered, less than the duration of
\* the operation's store later, issues no request and returns what that
\* call returned.
C28_RepeatIsCached ==
    (/\ fetch_call.phase = "idle"
     /\ fetch_call.repeat
     /\ fetch_call.op # "fetch_player_statistics")
    => /\ \A i \in DOMAIN http : http[i].kind # "GET"
       /\ fetch_call.returned = fetch_call.previous

\* The status of a run that has gone through its chunks.
Completed == Msg("Data collection completed successfully!", 0, 0, "")

\* C29: a run goes from chunk i to chunk i + 1 only by the batch decision
\* of chunk i, every fixture of the chunks up to i looked up; the status
\* becomes Completed only by the step of a run that stands past the batch
\* decision of its last chunk with every fixture looked up, and the next
\* step of that run ends it and clears is_running.
C29_CompletedLast ==
    [][/\ \A t \in Threads :
            (/\ run[t].outcome = "running"
             /\ run[t].i >= 1
             /\ run'[t].i # run[t].i)
            => /\ run'[t].i = run[t].i + 1
               /\ pc[t] = "219"
               /\ run[t].lookups = run[t].i * chunk_size
       /\ (/\ global_state'.current_status = Completed
           /\ global_state.current_status # Completed)
            => \E t \in Threads :
                /\ pc[t] = "145" /\ pc'[t] = "223"
                /\ run[t].outcome = "running"
                /\ run[t].i = (Len(run[t].fixtures) + chunk_size - 1) \div chunk_size
                /\ run[t].lookups = Len(run[t].fixtures)
                /\ Len(run[t].fixtures) > 0
       /\ \A t \in Threads :
            (pc[t] = "223" /\ pc'[t] # pc[t])
            => /\ global_state.current_status = Completed
               /\ ~global_state'.is_running
               /\ run'[t].outcome = "completed"]_vars
\* A run of 45 fixtures has ended Completed in its third chunk, is_running
\* clear.
C29_Witness ==
    /\ global_state.current_status = Completed
    /\ ~global_state.is_running
    /\ \E t \in Threads :
        /\ run[t].outcome = "completed"
        /\ Len(run[t].fixtures) = BigN
        /\ run[t].i = 3
        /\ run[t].lookups = BigN

\* C30: the step of a start request that arrives while is_running is true
\* leaves the GlobalState as it is, status, progress, error, log and
\* is_running, and starts nothing: its handler is back at once, no run is
\* created and none changes.
C30_StartWhileRunning ==
    [][\A t \in Threads :
        (/\ requests_left'[t] # requests_left[t]
         /\ global_state.is_running)
        => /\ global_state' = global_state
           /\ pc' = pc /\ pc[t] = "idle"
           /\ run' = run
           /\ args' = args /\ idx' = idx
           /\ store' = store /\ history' = history]_vars
\* The start request of one handler has been taken while the run of the
\* other was going on: the handler is idle, has created no run, and the run
\* of the other goes on, is_running set.
C30_Witness ==
    \E t, u \in Threads :
        /\ t # u
        /\ requests_left[t] = 0 /\ pc[t] = "idle"
        /\ run[t] = NoRun /\ args[t] = <<>>
        /\ run[u].outcome = "running" /\ pc[u] = "pc_fetch"
        /\ global_state.is_running
        /\ history = <<>>

\* The complete selections among the first k rows of a start request.
CompleteRows(league_ids, k) == {i \in 1..k : Complete(league_ids[i])}
\* The handlers whose start request was accepted.
Accepted == {t \in Threads : args[t] # <<>>}

\* C31: the runs of one start request are serialized in selection order: a
\* worker thread is started for row idx only after the runs of the complete
\* rows before it have ended, the handler moves from row to row one at a
\* time, and it returns only after every row was passed and the runs of all
\* complete rows have ended.
C31_Serialized ==
    [][\A t \in Threads :
        /\ (pc[t] # "pc_begin" /\ pc'[t] = "pc_begin")
            => /\ run[t].outcome # "running"
               /\ run'[t].outcome = "running"
               /\ idx'[t] = idx[t]
               /\ Complete(args[t][idx[t]])
               /\ Len(history) >= Cardinality(CompleteRows(args[t], idx[t] - 1))
               /\ Accepted = {t}
                    => Len(history) = Cardinality(CompleteRows(args[t], idx[t] - 1))
        /\ (idx'[t] # idx[t] /\ pc[t] # "377")
            => /\ idx'[t] = idx[t] + 1
               /\ run'[t].outcome # "running"
        /\ (pc[t] # "idle" /\ pc'[t] = "idle")
            => /\ idx[t] = Len(args[t]) + 1
               /\ run[t].outcome # "running"
               /\ Len(history) >= Cardinality(CompleteRows(args[t], Len(args[t])))
               /\ Accepted = {t}
                    => Len(history) = Cardinality(CompleteRows(args[t], Len(args[t])))]_vars
\* A start request of two complete rows has returned after its two runs
\* ended one after the other.
C31_Witness ==
    \E t \in Threads :
        /\ pc[t] = "idle"
        /\ Len(args[t]) = 2
        /\ CompleteRows(args[t], 2) = {1, 2}
        /\ idx[t] = 3
        /\ Len(history) = 2
        /\ run[t].outcome # "running"

\* The fixtures of the batches a run has written.
Written(r) == SumOver(Sizes(r.writes), DOMAIN r.writes)
\* The fixtures a run in a chunk has added to its batches so far: those of
\* the batches written and of the batch pending.
AddedToBatches(r) == Written(r) + Len(r.batch)

\* C32: after each chunk the progress the run reports is processed / total
\* * 100 to the nearest tenth, with the counts processed and total, where
\* processed is the number of fixtures added to batches so far and total the
\* number of fixtures fetched; processed never exceeds total, and the
\* progress reported after a chunk is never below the one reported after the
\* chunk before.
C32_Progress ==
    [][\A t \in Threads :
        LET r == run[t]
            n == Len(r.fixtures)
            reported == global_state'.current_progress
        IN  /\ r.total_processed <= n
            /\ pc[t] \in {"pc_fixture", "pc_details", "pc_commit"}
                => r.total_processed = AddedToBatches(r)
            /\ (pc[t] = "219" /\ pc'[t] # pc[t])
                => /\ reported[2] = r.total_processed
                   /\ reported[2] = Written(r)
                   /\ reported[3] = n
                   /\ reported[2] <= reported[3]
                   /\ 2 * reported[1] * n <= 2000 * reported[2] + n
                   /\ 2 * reported[1] * n >= 2000 * reported[2] - n
                   /\ reported[1] \in 0..1000
                   /\ reported[2] = n <=> reported[1] = 1000
                   /\ r.i >= 2
                        => /\ global_state.current_progress[3] = n
                           /\ global_state.current_progress[2] <= reported[2]
                           /\ global_state.current_progress[1] <= reported[1]]_vars
\* A run of 45 fixtures that skipped its first chunk reports 55.6% (25/45)
\* after its third chunk, having reported 44.4% (20/45) after its second.
C32_Witness ==
    \E t \in Threads :
        /\ Len(run[t].fixtures) = BigN
        /\ run[t].lookups = BigN
        /\ Sizes(run[t].writes) = <<20, 5>>
        /\ global_state.current_progress = <<556, 25, 45>>

\* C33: while a run is executing the log is append-only, every earlier entry
\* staying at its position, and every add_log returns with its message the
\* last entry of the log and the current status.
C33_LogAppendOnly ==
    [][/\ Executing # {}
            => LET log == global_state.log_messages
                   log1 == global_state'.log_messages
               IN  /\ Len(log1) >= Len(log)
                   /\ SubSeq(log1, 1, Len(log)) = log
       /\ \A t \in Threads :
            (pc[t] = "145" /\ pc'[t] # pc[t])
            => LET log1 == global_state'.log_messages
               IN  /\ log1 # <<>>
                   /\ log1[Len(log1)] = run[t].message
                   /\ global_state'.current_status = run[t].message]_vars

\* The ids of the fixtures a run fetched.
FetchedIds(r) == {r.fixtures[p].fixture.id : p \in DOMAIN r.fixtures}
\* The ids of the fixtures the log of the GlobalState reports as skipped.
SkippedIds(gs) ==
    {gs.log_messages[k].a :
        k \in {j \in DOMAIN gs.log_messages : gs.log_messages[j].kind = "Skipping fixture"}}

\* C34: no step removes a document from the store; a step changes or adds
\* only documents of fetched fixtures the run standing at its commit did not
\* skip; and every document the store held when a run began, of a fixture
\* the run skipped or of a fixture not in its fetched list, is in the store
\* unchanged.
C34_Frame ==
    [][/\ DOMAIN store \subseteq DOMAIN store'
       /\ \A id \in DOMAIN store' :
            (id \notin DOMAIN store \/ store'[id] # store[id])
            => \E t \in Threads :
                /\ pc[t] = "pc_commit"
                /\ id \in FetchedIds(run[t])
                /\ id \notin SkippedIds(global_state)
                /\ \E k \in DOMAIN run[t].batch : run[t].batch[k].id = id
       /\ \A t \in Threads :
            run'[t].outcome # "none"
            => \A id \in DOMAIN run'[t].store0 :
                (id \notin FetchedIds(run'[t]) \/ id \in SkippedIds(global_state'))
                => /\ id \in DOMAIN store'
                   /\ store'[id] = run'[t].store0[id]]_vars
\* A run has completed that wrote one fetched fixture and skipped another,
\* and the store holds the two documents of fixtures not listed as they were.
C34_Witness ==
    \E t \in Threads :
        /\ run[t].outcome = "completed"
        /\ run[t].writes # <<>>
        /\ SkippedIds(global_state) # {}
        /\ SkippedIds(global_state) \subseteq DOMAIN run[t].store0
        /\ \E id \in DOMAIN store \ FetchedIds(run[t]) :
            /\ store[id] = ChangedDoc(id)
            /\ run[t].store0[id] = ChangedDoc(id)
        /\ \E id \in DOMAIN store \ FetchedIds(run[t]) : store[id] = UpToDateDoc(id)

\* C35: while a run spawned by a start request is executing, is_running is
\* true, during the second and later runs of the request as well.
C35_RunningWhileExecuting ==
    Executing # {} => global_state.is_running

\* C36: an accepted start request returns with is_running false again,
\* whatever its rows, also when none of them is complete.
C36_ReturnsNotRunning ==
    [][\A t \in Threads :
        (pc[t] = "sc_loop" /\ pc'[t] = "idle") => ~global_state'.is_running]_vars

\* The four sub-resource fields of a document.
DetailFields(data) == [k \in {DetailKinds[i] : i \in DOMAIN DetailKinds} |-> data[k]]

\* C37: the step that issues the detail requests of a fetched fixture having
\* its fields keeps the run going, adds the fixture to the batch and counts
\* it as processed; if the request number k of the four failed, k requests
\* were issued and the record's events, lineups, statistics and players are
\* all empty; if none failed, four were issued and the four fields hold the
\* fetched responses.
C37_AllOrNothing ==
    [][\A t \in Threads :
        (/\ pc[t] = "pc_details"
         /\ run'[t].details # run[t].details
         /\ Current(run[t]).keys = AllKeys)
        => LET r == run[t]
               r1 == run'[t]
               id == Current(r).fixture.id
               failed == r1.faults > r.faults
               record == r1.batch[Len(r1.batch)]
           IN  /\ r1.outcome = "running"
               /\ r1.total_processed = r.total_processed + 1
               /\ Len(r1.batch) = Len(r.batch) + 1
               /\ SubSeq(r1.batch, 1, Len(r.batch)) = r.batch
               /\ record.id = id
               /\ record.data.fixture = Current(r).fixture
               /\ r1.details[id] \in 1..Len(DetailKinds)
               /\ r1.details[id] < Len(DetailKinds) => failed
               /\ failed => DetailFields(record.data) =
                                [k \in {"events", "lineups", "statistics", "players"} |-> <<>>]
               /\ ~failed => /\ r1.details[id] = Len(DetailKinds)
                             /\ DetailFields(record.data) =
                                    [k \in {"events", "lineups", "statistics", "players"} |->
                                        Served(id, k)]]_vars
\* A run has completed in which the second detail request of a fixture
\* failed: two requests were issued for it and its record is stored with the
\* four fields empty.
C37_Witness ==
    \E t \in Threads : \E id \in DOMAIN run[t].details :
        /\ run[t].outcome = "completed"
        /\ run[t].faults = 1
        /\ run[t].details[id] = 2
        /\ run[t].total_processed >= 1
        /\ id \in WrittenIds(run[t].writes)
        /\ id \in DOMAIN store
        /\ DetailFields(store[id]) =
            [k \in {"events", "lineups", "statistics", "players"} |-> <<>>]

\* C38: what a fetch_fixtures call for a league and a season returns
\* consists of fixtures requested from the remote with that season only: it
\* is the empty list or the list of the fixture of the call's season.
C38_SeasonOfFixtures ==
    (fetch_call.phase = "idle" /\ fetch_call.n >= 1)
    => fetch_call.returned \in
        {EmptyList, TextOfList(SeasonResponse(SeasonBody(fetch_call.season)))}

\* C39: when a start request has returned and the current status is the
\* Completed message, current_error is empty, also when an earlier run of
\* the request failed.
C39_NoErrorWhenCompleted ==
    \A t \in Threads :
        (/\ pc[t] = "idle"
         /\ args[t] # <<>>
         /\ global_state.current_status = Completed)
        => global_state.current_error = ""

=============================================================================
